---- MODULE Spec2Model ----
(***************************************************************************)
(* Model of the finance assistant's Metrics Aggregator and Forecast Engine *)
(* (ui/forecast.py).                                                       *)
(*                                                                         *)
(* Dates are day ordinals (integers); NaT stands for a date value that     *)
(* pd.to_datetime cannot parse.  Amounts are integers in the smallest      *)
(* currency unit; NaN stands for an amount pd.to_numeric cannot parse.     *)
(* Quotients that the code computes in floating point (savings_rate_pct,   *)
(* pct_change) are kept as exact fractions <<numerator, denominator>> with *)
(* a positive denominator and are compared by cross-multiplication.        *)
(***************************************************************************)
EXTENDS Integers, Sequences, FiniteSets, TLC

VARIABLES
    projects,          \* st.session_state.projects: project name -> table
    selected_project,  \* st.session_state.selected_project (NoProject = None)
    today,             \* datetime.today().date() as a day ordinal
    reverseTies,       \* build choice: order in which the unstable argsort leaves equal sums
    snapshot,          \* what the last _last_n_days_metrics call returned
    status_out,        \* what the last _local_status call was given and returned
    forecast,          \* what the last compute_forecast call was given and returned
    calls,             \* number of calls made so far
    ai_cache,          \* st.cache_data of get_ai_response: set of [key, value]
    category_cache,    \* st.cache_data of get_transaction_category
    trend_cache,       \* st.cache_data of get_forecast
    stock_cache,       \* st.cache_data(ttl=300) of get_stock_data: [key, value, expires]
    clock,             \* wall clock in seconds
    log,               \* the calls made so far to the operations of core/ and ui/sidebar.py
    ui                 \* the rest of st.session_state: chat, budget plan, form widgets

svc_vars == <<ai_cache, category_cache, trend_cache, stock_cache, clock, log, ui>>

vars == <<projects, selected_project, today, reverseTies, snapshot, status_out, forecast, calls,
          ai_cache, category_cache, trend_cache, stock_cache, clock, log, ui>>

(***************************************************************************)
(* Bounds of the model                                                     *)
(***************************************************************************)
MaxRows == 2      \* rows of a freely drawn table
MaxAmount == 2    \* largest amount of a drawn row
MaxCalls == 2     \* calls made in one run of the model
MaxSpikes == 2    \* category_spikes entries of a drawn snapshot
MaxSeries == 3    \* expense rows of a trend series
MaxLookups == 3   \* calls of the cached operations
MaxTicks == 2     \* clock ticks
MaxSteps == 2     \* interactions with the interface

(***************************************************************************)
(* Values                                                                  *)
(***************************************************************************)
NaT == -1
NaN == -1
NoProject == "<None>"
Today0 == 100
DefaultDays == 30
TopN == 5
SpikeN == 3

\* DEFAULT_CATEGORIES of the sidebar that are used here, and two spellings
\* of the income category that only str.strip().str.lower() recognises.
ExpenseCategories == <<"Dining", "Groceries", "Investment", "Rent", "Transport", "Utilities">>
IncomeSpellings == {"Income", " INCOME "}

\* Python orders strings by code point: space < upper case < lower case.
CategoryOrder == <<" INCOME ", "Dining", "Groceries", "Income", "Investment", "Rent", "Transport", "Utilities">>

Range(s) == {s[i] : i \in DOMAIN s}

\* str.strip().str.lower() on the category strings of the model
StripLower(c) ==
    CASE c = "Income" -> "income"
      [] c = " INCOME " -> "income"
      [] c = "Dining" -> "dining"
      [] c = "Groceries" -> "groceries"
      [] c = "Investment" -> "investment"
      [] c = "Rent" -> "rent"
      [] c = "Transport" -> "transport"
      [] c = "Utilities" -> "utilities"
      [] OTHER -> c

(***************************************************************************)
(* Exact fractions                                                         *)
(***************************************************************************)
Frac(n, d) == <<n, d>>
FracOfInt(n) == <<n, 1>>
FracLt(a, b) == a[1] * b[2] < b[1] * a[2]
FracEq(a, b) == a[1] * b[2] = b[1] * a[2]
FracGe(a, b) == ~FracLt(a, b)
FracGt(a, b) == FracLt(b, a)

(***************************************************************************)
(* ui/forecast.py: data preparation                                        *)
(***************************************************************************)
\* _to_date: the date of a parseable value, None (dropped by dropna) otherwise
ToDate(x) == IF x = NaT THEN NaT ELSE x

\* pd.to_numeric(errors="coerce").fillna(0.0)
ToNumeric(a) == IF a = NaN THEN 0 ELSE a

IsIncome(c) == StripLower(c) = "income"

\* _prep_df: None or an empty frame gives an empty frame; otherwise rows
\* without a parseable date are dropped and is_income is added.
PrepRow(r) ==
    [date |-> ToDate(r.date), category |-> r.category,
     amount |-> ToNumeric(r.amount), is_income |-> IsIncome(r.category)]

RECURSIVE PrepRows(_)
PrepRows(df) ==
    IF df = <<>> THEN <<>>
    ELSE LET r == PrepRow(Head(df))
         IN  IF r.date = NaT THEN PrepRows(Tail(df))
             ELSE <<r>> \o PrepRows(Tail(df))

\* the preparation without dropna(subset=["date"])
PrepDfKeepUndated(df) == IF df = <<>> THEN <<>> ELSE [i \in DOMAIN df |-> PrepRow(df[i])]

PrepDf(df) == IF df = <<>> THEN <<>> ELSE PrepRows(df)

\* a window that leaves out its first day
WindowOpenStart(df, start, end) ==
    LET InRange(r) == r.date > start /\ r.date <= end
    IN  SelectSeq(df, InRange)

\* _window
Window(df, start, end) ==
    LET InRange(r) == r.date >= start /\ r.date <= end
    IN  SelectSeq(df, InRange)

RECURSIVE SumAmount(_)
SumAmount(rows) ==
    IF rows = <<>> THEN 0 ELSE Head(rows).amount + SumAmount(Tail(rows))

IncomeRows(rows) == LET P(r) == r.is_income IN SelectSeq(rows, P)
ExpenseRows(rows) == LET P(r) == ~r.is_income IN SelectSeq(rows, P)

\* groupby("category")["amount"].sum(): one entry per category that occurs,
\* keys in ascending order
GroupSum(rows) ==
    LET Present(c) == \E i \in DOMAIN rows : rows[i].category = c
        keys == SelectSeq(CategoryOrder, Present)
        Of(c) == LET P(r) == r.category = c IN SelectSeq(rows, P)
    IN  [i \in DOMAIN keys |-> [category |-> keys[i], amount |-> SumAmount(Of(keys[i]))]]

Reverse(s) == [i \in DOMAIN s |-> s[Len(s) + 1 - i]]

\* insertion of e into a sequence that is descending by amount, behind
\* every entry that is not smaller
RECURSIVE InsertDesc(_, _)
InsertDesc(sorted, e) ==
    IF sorted = <<>> THEN <<e>>
    ELSE IF Head(sorted).amount >= e.amount
         THEN <<Head(sorted)>> \o InsertDesc(Tail(sorted), e)
         ELSE <<e>> \o sorted

RECURSIVE StableDesc(_)
StableDesc(s) ==
    IF s = <<>> THEN <<>>
    ELSE InsertDesc(StableDesc(SubSeq(s, 1, Len(s) - 1)), s[Len(s)])

\* the same sort without ascending=False
SortValuesAsc(s, rev) == Reverse(IF rev THEN StableDesc(Reverse(s)) ELSE StableDesc(s))

\* Series.sort_values(ascending=False) with the default quicksort: descending
\* by amount; equal amounts stay in key order or come out reversed,
\* depending on the argsort the build uses.
SortValuesDesc(s, rev) == IF rev THEN StableDesc(Reverse(s)) ELSE StableDesc(s)

HeadN(s, n) == SubSeq(s, 1, IF Len(s) < n THEN Len(s) ELSE n)

\* the entry of a groupby result for a category, 0.0 when absent (dict.get)
RECURSIVE GetAmount(_, _)
GetAmount(groups, c) ==
    IF groups = <<>> THEN 0
    ELSE IF Head(groups).category = c THEN Head(groups).amount
         ELSE GetAmount(Tail(groups), c)

(***************************************************************************)
(* ui/forecast.py: _last_n_days_metrics                                    *)
(***************************************************************************)
\* the percentage change without the special case for a new category
PctChangeNoNew(v, pv) ==
    IF pv > 0 THEN Frac((v - pv) * 100, pv) ELSE FracOfInt(0)

\* pct = (change / pv * 100.0) if pv > 0 else (100.0 if v > 0 else 0.0)
PctChange(v, pv) ==
    IF pv > 0 THEN Frac((v - pv) * 100, pv)
    ELSE IF v > 0 THEN FracOfInt(100) ELSE FracOfInt(0)

SpikeOf(e, prev_by_cat) ==
    LET pv == GetAmount(prev_by_cat, e.category)
    IN  [category |-> e.category, cur |-> e.amount, prev |-> pv,
         delta |-> e.amount - pv, pct_change |-> PctChange(e.amount, pv)]

\* key=lambda x: -x["pct_change"], without the tie-break
SpikeBeforeNoTie(a, b) == FracGt(a.pct_change, b.pct_change)

\* key=lambda x: (-x["pct_change"], -x["delta"]): a sorts strictly before b
SpikeBefore(a, b) ==
    \/ FracGt(a.pct_change, b.pct_change)
    \/ /\ FracEq(a.pct_change, b.pct_change)
       /\ a.delta > b.delta

RECURSIVE InsertSpike(_, _)
InsertSpike(sorted, e) ==
    IF sorted = <<>> THEN <<e>>
    ELSE IF SpikeBefore(e, Head(sorted))
         THEN <<e>> \o sorted
         ELSE <<Head(sorted)>> \o InsertSpike(Tail(sorted), e)

\* sorted(): stable
RECURSIVE SortSpikes(_)
SortSpikes(s) ==
    IF s = <<>> THEN <<>>
    ELSE InsertSpike(SortSpikes(SubSeq(s, 1, Len(s) - 1)), s[Len(s)])

\* the savings rate taken from the expense instead of the net
SavingsRateOfExpense(net, income) ==
    IF income > 0 THEN Frac((income - net) * 100, income) ELSE FracOfInt(0)

\* cur_savings_rate = (cur_net / cur_income * 100.0) if cur_income > 0 else 0.0
SavingsRate(net, income) ==
    IF income > 0 THEN Frac(net * 100, income) ELSE FracOfInt(0)

LastNDaysMetrics(df, days, now, rev) ==
    LET start == now - (days - 1)
        prev_start == start - days
        prev_end == start - 1
        cur == Window(df, start, now)
        prev == Window(df, prev_start, prev_end)
        cur_income == SumAmount(IncomeRows(cur))
        cur_exp == SumAmount(ExpenseRows(cur))
        cur_net == cur_income - cur_exp
        prev_income == SumAmount(IncomeRows(prev))
        prev_exp == SumAmount(ExpenseRows(prev))
        by_cat == HeadN(SortValuesDesc(GroupSum(ExpenseRows(cur)), rev), TopN)
        prev_by_cat == GroupSum(ExpenseRows(prev))
        spikes == [i \in DOMAIN by_cat |-> SpikeOf(by_cat[i], prev_by_cat)]
    IN  [period_days |-> days,
         today |-> now,
         current |-> [income |-> cur_income,
                      expense |-> cur_exp,
                      net |-> cur_net,
                      savings_rate_pct |-> SavingsRate(cur_net, cur_income),
                      top_categories |-> by_cat],
         previous |-> [income |-> prev_income,
                       expense |-> prev_exp,
                       net |-> prev_income - prev_exp],
         category_spikes |-> HeadN(SortSpikes(spikes), SpikeN)]

(***************************************************************************)
(* ui/forecast.py: _local_status                                           *)
(***************************************************************************)
Statuses == {"CLEAR_SKIES", "PARTLY_CLOUDY", "LIGHT_SHOWERS", "THUNDERSTORMS"}

Abs(x) == IF x < 0 THEN -x ELSE x
Max(a, b) == IF a > b THEN a ELSE b

\* the change of the last spike kept instead of the largest one
LastPct(spikes) ==
    IF spikes = <<>> THEN FracOfInt(0) ELSE spikes[Len(spikes)].pct_change

\* max((s["pct_change"] for s in spikes), default=0)
RECURSIVE MaxPct(_)
MaxPct(spikes) ==
    IF spikes = <<>> THEN FracOfInt(0)
    ELSE IF Len(spikes) = 1 THEN spikes[1].pct_change
    ELSE LET rest == MaxPct(Tail(spikes))
         IN  IF FracLt(spikes[1].pct_change, rest) THEN rest ELSE spikes[1].pct_change

\* the rules with PARTLY_CLOUDY tried before CLEAR_SKIES
LocalStatusCloudyFirst(metrics) ==
    LET inc == metrics.current.income
        exp == metrics.current.expense
        net == metrics.current.net
        sr == metrics.current.savings_rate_pct
        big_spike == MaxPct(metrics.category_spikes)
    IN  IF inc <= 0 /\ exp > 0 THEN <<"THUNDERSTORMS", "storm">>
        ELSE IF net >= 0 /\ (FracGe(sr, FracOfInt(5)) \/ FracLt(big_spike, FracOfInt(25)))
             THEN <<"PARTLY_CLOUDY", "sun behind cloud">>
        ELSE IF net >= 0 /\ FracGe(sr, FracOfInt(20)) /\ FracLt(big_spike, FracOfInt(15))
             THEN <<"CLEAR_SKIES", "sun">>
        ELSE IF net < 0 /\ 5 * Abs(net) <= Max(inc, 1)
             THEN <<"LIGHT_SHOWERS", "rain">>
        ELSE <<"THUNDERSTORMS", "storm">>

\* _local_status: (status, emoji); abs(net) <= 0.2 * max(inc, 1) is taken
\* exactly as 5 * abs(net) <= max(inc, 1)
LocalStatus(metrics) ==
    LET inc == metrics.current.income
        exp == metrics.current.expense
        net == metrics.current.net
        sr == metrics.current.savings_rate_pct
        big_spike == MaxPct(metrics.category_spikes)
    IN  IF inc <= 0 /\ exp > 0 THEN <<"THUNDERSTORMS", "storm">>
        ELSE IF net >= 0 /\ FracGe(sr, FracOfInt(20)) /\ FracLt(big_spike, FracOfInt(15))
             THEN <<"CLEAR_SKIES", "sun">>
        ELSE IF net >= 0 /\ (FracGe(sr, FracOfInt(5)) \/ FracLt(big_spike, FracOfInt(25)))
             THEN <<"PARTLY_CLOUDY", "sun behind cloud">>
        ELSE IF net < 0 /\ 5 * Abs(net) <= Max(inc, 1)
             THEN <<"LIGHT_SHOWERS", "rain">>
        ELSE <<"THUNDERSTORMS", "storm">>

\* _fallback_headline: only the CLEAR_SKIES headline quotes the numbers
FallbackHeadline(status, m) ==
    IF status = "CLEAR_SKIES"
    THEN [text |-> "Clear skies", net |-> m.current.net, sr |-> m.current.savings_rate_pct]
    ELSE IF status = "PARTLY_CLOUDY" THEN [text |-> "Partly cloudy"]
    ELSE IF status = "LIGHT_SHOWERS" THEN [text |-> "Light showers"]
    ELSE [text |-> "Thunderstorms"]

(***************************************************************************)
(* ui/forecast.py: the reply of the AI backend and _parse_json_maybe       *)
(*                                                                         *)
(* A reply text is <<what precedes, JSON body, what follows>>.  A JSON     *)
(* value is a record tagged with its kind; a dict lists the keys it has.   *)
(***************************************************************************)
VerdictKeys == {"status", "emoji", "headline", "explanation", "actions", "score"}

JsonDict(keys, status, actions, score) ==
    [kind |-> "dict", keys |-> keys, status |-> status, emoji |-> "sun",
     headline |-> [text |-> "from the model"], explanation |-> "from the model",
     actions |-> actions, score |-> score]
JsonList(items) == [kind |-> "list", items |-> items]
JsonStr(text) == [kind |-> "str", text |-> text]
JsonNum(value) == [kind |-> "num", value |-> value]
JsonBool(value) == [kind |-> "bool", value |-> value]
JsonNull == [kind |-> "null"]
Garbage == [kind |-> "garbage"]

EmptyDict == [kind |-> "dict", keys |-> {}]

\* Python truthiness of a parsed value
Truthy(v) ==
    CASE v.kind = "dict" -> v.keys # {}
      [] v.kind = "list" -> v.items # <<>>
      [] v.kind = "str" -> v.text # ""
      [] v.kind = "num" -> v.value # 0
      [] v.kind = "bool" -> v.value
      [] OTHER -> FALSE

\* the strings of the model that contain the substring "status"
MentionsStatus(text) == text \in {"status", "my status is fine"}

\* "status" in obj: key lookup on a dict, membership on a list, substring
\* search on a str; a number or a bool is not iterable (TypeError)
InSupported(v) == v.kind \in {"dict", "list", "str"}
StatusIn(v) ==
    CASE v.kind = "dict" -> "status" \in v.keys
      [] v.kind = "list" -> "status" \in Range(v.items)
      [] v.kind = "str" -> MentionsStatus(v.text)
      [] OTHER -> FALSE

HasOpenBrace(pre) == pre = "Given {x "
HasCloseBrace(post) == post = " } done"

\* json.loads(text): the whole text must be one JSON value
JsonLoadsOk(text) == text[1] = "" /\ text[3] = "" /\ text[2].kind # "garbage"

\* a parse that gives up when json.loads fails on the whole text
ParseJsonStrict(text) == IF JsonLoadsOk(text) THEN text[2] ELSE JsonNull

\* _parse_json_maybe: json.loads of the text, else of the substring from the
\* first "{" to the last "}", else None.  The substring is a JSON value
\* exactly when the body is an object and no brace surrounds it.
ParseJsonMaybe(text) ==
    IF JsonLoadsOk(text) THEN text[2]
    ELSE IF text[2].kind = "dict" /\ ~HasOpenBrace(text[1]) /\ ~HasCloseBrace(text[3])
         THEN text[2]
         ELSE JsonNull

(***************************************************************************)
(* ui/forecast.py: compute_forecast                                        *)
(***************************************************************************)
FallbackActions == <<"Pre-commit a small saving", "Cap top category for 2 weeks">>

\* a fallback that always scores 65
LocalVerdictFlatScore(metrics) ==
    LET st == LocalStatus(metrics)
    IN  [kind |-> "dict", keys |-> VerdictKeys, status |-> st[1], emoji |-> st[2],
         headline |-> FallbackHeadline(st[1], metrics), explanation |-> "",
         actions |-> FallbackActions, score |-> 65]

\* the object built from the local rule
LocalVerdict(metrics) ==
    LET st == LocalStatus(metrics)
    IN  [kind |-> "dict", keys |-> VerdictKeys, status |-> st[1], emoji |-> st[2],
         headline |-> FallbackHeadline(st[1], metrics), explanation |-> "",
         actions |-> FallbackActions,
         score |-> IF st[1] \in {"CLEAR_SKIES", "PARTLY_CLOUDY"} THEN 65 ELSE 35]

EmptyMarker == [kind |-> "dict", keys |-> {"empty"}, empty |-> TRUE]

\* projects.get(proj) if proj in projects else None; None and an empty
\* frame are both the empty sequence
ProjectTable ==
    IF selected_project \in DOMAIN projects THEN projects[selected_project] ELSE <<>>

\* gem: what _get_gemini and _call_gemini will do,
\* [available, raises, text]
ComputeForecastResult(tbl, days, gem, now, rev) ==
    LET df == PrepDf(tbl)
        metrics == LastNDaysMetrics(df, days, now, rev)
        \* obj = _parse_json_maybe(raw) or {}; except Exception: obj = {}
        parsed == IF gem.raises THEN EmptyDict
                  ELSE LET v == ParseJsonMaybe(gem.text)
                       IN  IF Truthy(v) THEN v ELSE EmptyDict
    IN  IF df = <<>>
        THEN [raised |-> FALSE, source |-> "empty", obj |-> EmptyMarker,
              metrics |-> [period_days |-> days]]
        ELSE IF ~gem.available
        THEN [raised |-> FALSE, source |-> "local", obj |-> LocalVerdict(metrics),
              metrics |-> metrics]
        ELSE IF ~Truthy(parsed)
        THEN [raised |-> FALSE, source |-> "local", obj |-> LocalVerdict(metrics),
              metrics |-> metrics]
        ELSE IF ~InSupported(parsed)
        THEN [raised |-> TRUE]
        ELSE IF ~StatusIn(parsed)
        THEN [raised |-> FALSE, source |-> "local", obj |-> LocalVerdict(metrics),
              metrics |-> metrics]
        ELSE [raised |-> FALSE, source |-> "ai", obj |-> parsed, metrics |-> metrics]

(***************************************************************************)
(* Inputs of the Metrics Aggregator                                        *)
(***************************************************************************)
\* windows of one and two days, whose every boundary is among the dates
\* below, and the window the application asks for
DaysInputs == {1, 2, DefaultDays}
DateInputs == {NaT} \cup ((Today0 - 4) .. (Today0 + 1))
FreeCategories == {"Income", "Groceries"}
\* rows of one unit each, on any date
RowInputs == [date : DateInputs, category : FreeCategories, amount : {1}]
\* rows whose amount is zero (the slider's default) or is not a number, and
\* rows whose category needs the strip and the lower to be read as income
OddRows ==
    [date : DateInputs, category : FreeCategories, amount : {0, NaN}]
    \cup [date : DateInputs, category : {" INCOME "}, amount : {1}]

RECURSIVE SeqsUpTo(_, _)
SeqsUpTo(S, n) ==
    IF n = 0 THEN {<<>>}
    ELSE LET shorter == SeqsUpTo(S, n - 1)
         IN  shorter \cup {Append(s, x) : s \in {t \in shorter : Len(t) = n - 1}, x \in S}

\* tables of a few arbitrary rows
FreeTables == SeqsUpTo(RowInputs, MaxRows)

\* tables that start with an odd row
OddTables == {<<r>> \o t : r \in OddRows, t \in SeqsUpTo(RowInputs, 1)}

\* tables with up to six expense categories: category i <= 4 has one row
\* of amount f[i] today (none when f[i] = 0), the fifth one row of the
\* largest amount and the sixth one row of one unit today, and the first
\* two categories one row of amount g[i] yesterday (none when g[i] = 0)
RankRows(f, g) ==
    LET CurRow(i) == IF f[i] = 0 THEN <<>>
                     ELSE <<[date |-> Today0, category |-> ExpenseCategories[i], amount |-> f[i]]>>
        PrevRow(i) == IF g[i] = 0 THEN <<>>
                      ELSE <<[date |-> Today0 - 1, category |-> ExpenseCategories[i], amount |-> g[i]]>>
    IN  PrevRow(1) \o PrevRow(2) \o CurRow(1) \o CurRow(2) \o CurRow(3)
          \o CurRow(4)
          \o <<[date |-> Today0, category |-> ExpenseCategories[5], amount |-> MaxAmount],
               [date |-> Today0, category |-> ExpenseCategories[6], amount |-> 1]>>

RankTables ==
    {RankRows(f, g) : f \in [1 .. 4 -> 0 .. MaxAmount], g \in [1 .. 2 -> 0 .. MaxAmount]}

TableInputs == FreeTables \cup OddTables \cup RankTables

NoSnapshot == [called |-> FALSE]
NoStatus == [called |-> FALSE]
NoForecast == [called |-> FALSE]

\* the caches of core/ are empty when the process starts
\* a key that is not in st.session_state
Unset == "<unset>"

\* no budget_plan key; an edit form that was not drawn in the last pass
NoPlan == [kind |-> "unset"]
NotDrawn == [drawn |-> FALSE]

\* the session before any project is created: initialize_session_state has
\* put an empty projects dict, no selected project and an empty chat
IdleUi ==
    [order |-> <<>>, last_project |-> NoProject, messages |-> <<>>, prompt_from_button |-> Unset,
     budget_plan |-> NoPlan, form |-> <<>>, edit_shown |-> NotDrawn, key_identity |-> TRUE]

IdleServices ==
    /\ ui = IdleUi
    /\ ai_cache = {}
    /\ category_cache = {}
    /\ trend_cache = {}
    /\ stock_cache = {}
    /\ clock = 0
    /\ log = <<>>

SelectedTable == projects[selected_project]

InitMetrics ==
    /\ selected_project = "Default"
    /\ \E t \in TableInputs : projects = [p \in {"Default"} |-> t]
    /\ today = Today0
    /\ reverseTies \in BOOLEAN
    /\ snapshot = NoSnapshot
    /\ status_out = NoStatus
    /\ forecast = NoForecast
    /\ calls = 0
    /\ IdleServices

\* a call that treats the caller's frame as its working copy
MetricsCallInPlace(days) ==
    /\ calls < MaxCalls
    /\ calls' = calls + 1
    /\ snapshot' = [called |-> TRUE, days |-> days, at |-> today,
                    metrics |-> LastNDaysMetrics(PrepDf(SelectedTable), days, today, reverseTies)]
    /\ projects' = [projects EXCEPT ![selected_project] = PrepDf(SelectedTable)]
    /\ UNCHANGED <<selected_project, today, reverseTies, status_out, forecast>>
    /\ UNCHANGED svc_vars

\* one call _last_n_days_metrics(_prep_df(df), days); _prep_df works on a
\* copy and _window only selects, so the caller's table is left alone
MetricsCall(days) ==
    /\ calls < MaxCalls
    /\ calls' = calls + 1
    /\ snapshot' = [called |-> TRUE, days |-> days, at |-> today,
                    metrics |-> LastNDaysMetrics(PrepDf(SelectedTable), days, today, reverseTies)]
    /\ UNCHANGED <<projects, selected_project, today, reverseTies, status_out, forecast>>
    /\ UNCHANGED svc_vars

NextMetrics == \E days \in DaysInputs : MetricsCall(days)

SpecMetrics == InitMetrics /\ [][NextMetrics]_vars

(***************************************************************************)
(* Inputs of _local_status: snapshots drawn field by field, with net and   *)
(* savings_rate_pct derived from income and expense as the aggregator does *)
(***************************************************************************)
IncomeInputs == {0, 1000}
ExpenseInputs == {0, 100, 600, 800, 950, 960, 1000, 1100, 1200, 1300}
\* (cur, prev) of a spike: -50%, 0%, 14%, 15%, 24%, 25% and a new category
SpikeInputs == {<<50, 100>>, <<100, 100>>, <<114, 100>>, <<115, 100>>,
                <<124, 100>>, <<125, 100>>, <<100, 0>>}

SnapshotOf(inc, exp, pairs) ==
    [period_days |-> DefaultDays,
     today |-> Today0,
     current |-> [income |-> inc, expense |-> exp, net |-> inc - exp,
                  savings_rate_pct |-> SavingsRate(inc - exp, inc),
                  top_categories |-> <<>>],
     previous |-> [income |-> 0, expense |-> 0, net |-> 0],
     category_spikes |->
        [i \in DOMAIN pairs |->
            [category |-> ExpenseCategories[i], cur |-> pairs[i][1], prev |-> pairs[i][2],
             delta |-> pairs[i][1] - pairs[i][2],
             pct_change |-> PctChange(pairs[i][1], pairs[i][2])]]]

SnapshotInputs ==
    {SnapshotOf(inc, exp, pairs) :
        inc \in IncomeInputs, exp \in ExpenseInputs, pairs \in SeqsUpTo(SpikeInputs, MaxSpikes)}

InitStatus ==
    /\ selected_project = NoProject
    /\ projects = <<>>
    /\ today = Today0
    /\ reverseTies = FALSE
    /\ \E m \in SnapshotInputs :
          snapshot = [called |-> TRUE, days |-> DefaultDays, at |-> Today0, metrics |-> m]
    /\ status_out = NoStatus
    /\ forecast = NoForecast
    /\ calls = 0
    /\ IdleServices

\* one call _local_status(metrics)
LocalStatusCall ==
    /\ ~status_out.called
    /\ status_out' = [called |-> TRUE,
                      status |-> LocalStatus(snapshot.metrics)[1],
                      emoji |-> LocalStatus(snapshot.metrics)[2]]
    /\ UNCHANGED <<projects, selected_project, today, reverseTies, snapshot, forecast, calls>>
    /\ UNCHANGED svc_vars

NextStatus == LocalStatusCall

SpecStatus == InitStatus /\ [][NextStatus]_vars

(***************************************************************************)
(* Inputs of a status read off a computed snapshot: an income row today    *)
(* (none when inc = 0) and four expense categories, category i with one    *)
(* row of f[i] today and one row of g[i] yesterday (none when 0)           *)
(***************************************************************************)
BudgetIncomes == {0, 1000}
BudgetSpends == {0, 100, 300}
BudgetEarlier == {0, 100}

BudgetRows(inc, f, g) ==
    LET IncRow == IF inc = 0 THEN <<>>
                  ELSE <<[date |-> Today0, category |-> "Income", amount |-> inc]>>
        CurRow(i) == IF f[i] = 0 THEN <<>>
                     ELSE <<[date |-> Today0, category |-> ExpenseCategories[i], amount |-> f[i]]>>
        PrevRow(i) == IF g[i] = 0 THEN <<>>
                      ELSE <<[date |-> Today0 - 1, category |-> ExpenseCategories[i], amount |-> g[i]]>>
    IN  PrevRow(1) \o PrevRow(2) \o PrevRow(3) \o PrevRow(4) \o IncRow
          \o CurRow(1) \o CurRow(2) \o CurRow(3) \o CurRow(4)

BudgetTables ==
    {BudgetRows(inc, f, g) :
        inc \in BudgetIncomes, f \in [1 .. 4 -> BudgetSpends], g \in [1 .. 4 -> BudgetEarlier]}

InitSnapshotStatus ==
    /\ selected_project = "Default"
    /\ \E t \in BudgetTables : projects = [p \in {"Default"} |-> t]
    /\ today = Today0
    /\ reverseTies = FALSE
    /\ snapshot = NoSnapshot
    /\ status_out = NoStatus
    /\ forecast = NoForecast
    /\ calls = 0
    /\ IdleServices

\* _local_status(metrics) on the snapshot _last_n_days_metrics returned
SnapshotStatusCall == snapshot.called /\ LocalStatusCall

NextSnapshotStatus ==
    \/ \E days \in DaysInputs : MetricsCall(days)
    \/ SnapshotStatusCall

SpecSnapshotStatus == InitSnapshotStatus /\ [][NextSnapshotStatus]_vars

(***************************************************************************)
(* Inputs of compute_forecast                                              *)
(***************************************************************************)
ForecastDays == {1, DefaultDays}
ForecastRows ==
    [date : {NaT, Today0, Today0 - 1}, category : {"Income", "Groceries"},
     amount : {1000, 1100}]
ForecastTables == SeqsUpTo(ForecastRows, MaxRows)

AiStatuses == {"CLEAR_SKIES", "THUNDERSTORMS", "SUNNY"}
ThreeActions == <<"a1", "a2", "a3">>
FourActions == <<"a1", "a2", "a3", "a4">>

\* JSON bodies the backend may answer with
JsonBodies ==
    {JsonDict(VerdictKeys, st, ThreeActions, 80) : st \in AiStatuses}
    \cup {JsonDict(VerdictKeys, "CLEAR_SKIES", FourActions, 80),
          JsonDict(VerdictKeys, "CLEAR_SKIES", ThreeActions, 150),
          JsonDict(VerdictKeys \ {"status"}, "", ThreeActions, 80),
          EmptyDict,
          JsonList(<<>>), JsonList(<<"a1">>), JsonList(<<"status">>),
          JsonStr(""), JsonStr("ok"), JsonStr("my status is fine"),
          JsonNum(0), JsonNum(5), JsonBool(TRUE), JsonBool(FALSE), JsonNull,
          Garbage}

\* the body alone, in prose, behind a "{", before a "}"
Wrappings == {<<"", "">>, <<"Sure! ", " Thanks.">>, <<"Given {x ", "">>, <<"", " } done">>}
TextInputs == {<<w[1], body, w[2]>> : w \in Wrappings, body \in JsonBodies}

NoText == <<"", Garbage, "">>
GeminiInputs ==
    {[available |-> FALSE, raises |-> FALSE, text |-> NoText],
     [available |-> TRUE, raises |-> TRUE, text |-> NoText]}
    \cup {[available |-> TRUE, raises |-> FALSE, text |-> t] : t \in TextInputs}

Init ==
    /\ \/ /\ selected_project = "Default"
          /\ \E t \in ForecastTables : projects = [p \in {"Default"} |-> t]
       \/ /\ selected_project = NoProject
          /\ projects = <<>>
    /\ today = Today0
    /\ reverseTies \in BOOLEAN
    /\ snapshot = NoSnapshot
    /\ status_out = NoStatus
    /\ forecast = NoForecast
    /\ calls = 0
    /\ IdleServices

\* one call compute_forecast(days), with what the backend does during it
ComputeForecast(days, gem) ==
    /\ ~forecast.called
    /\ forecast' = [called |-> TRUE, days |-> days, gem |-> gem,
                    ret |-> ComputeForecastResult(ProjectTable, days, gem, today, reverseTies)]
    /\ UNCHANGED <<projects, selected_project, today, reverseTies, snapshot, status_out, calls>>
    /\ UNCHANGED svc_vars

Next == \E days \in ForecastDays : \E gem \in GeminiInputs : ComputeForecast(days, gem)

Spec == Init /\ [][Next]_vars

(***************************************************************************)
(* core/analytics.py: the trend forecast                                   *)
(***************************************************************************)
ForecastHorizon == 30
MinRecords == 3

\* lookup in a st.cache_data store, kept as a set of [key, value] entries
\* the one element of a set that has one: S is {e : x \in {v}}, which gives
\* a result its name x before e is computed from it
The(S) == CHOOSE x \in S : TRUE

Cached(cache, k) == \E e \in cache : e.key = k
CacheGet(cache, k) == (CHOOSE e \in cache : e.key = k).value

\* the expense rows with every income spelling left out
ExpenseDfAnySpelling(df) == LET P(r) == ~IsIncome(r.category) IN SelectSeq(df, P)

\* df[df['category'] != 'Income']
ExpenseDf(df) == LET P(r) == r.category # "Income" IN SelectSeq(df, P)

RECURSIVE SortedDays(_)
SortedDays(S) ==
    IF S = {} THEN <<>>
    ELSE LET m == CHOOSE x \in S : \A y \in S : x <= y
         IN  <<m>> \o SortedDays(S \ {m})

\* groupby(date)["amount"].sum().reset_index() with the ordinal column
DailyExpenses(rows) ==
    LET days == SortedDays({rows[i].date : i \in DOMAIN rows})
        Of(d) == LET P(r) == r.date = d IN SelectSeq(rows, P)
    IN  [i \in DOMAIN days |-> [ordinal |-> days[i], amount |-> SumAmount(Of(days[i]))]]

\* the sum of a sequence of numbers
RECURSIVE SumSeq(_)
SumSeq(s) == IF s = <<>> THEN 0 ELSE Head(s) + SumSeq(Tail(s))

\* np.polyfit(x, y, 1) as the line (na * t + nb) / den with den > 0: the
\* least-squares line through two or more days; for a single day the
\* minimum-norm solution of the rank-deficient system, which lstsq returns
\* on the columns scaled by their norms.
Polyfit(daily) ==
    LET n == Len(daily)
        sx == SumSeq([i \in DOMAIN daily |-> daily[i].ordinal])
        sy == SumSeq([i \in DOMAIN daily |-> daily[i].amount])
        sxx == SumSeq([i \in DOMAIN daily |-> daily[i].ordinal * daily[i].ordinal])
        sxy == SumSeq([i \in DOMAIN daily |-> daily[i].ordinal * daily[i].amount])
    IN  IF n = 1
        THEN [na |-> sy, nb |-> sy * sx, den |-> 2 * sx]
        ELSE [na |-> n * sxy - sx * sy, nb |-> sy * sxx - sx * sxy, den |-> n * sxx - sx * sx]

\* a projection that keeps negative values
ClampNothing(p) == p

\* future_preds[future_preds < 0] = 0
ClampNegative(p) == IF p < 0 THEN 0 ELSE p

\* get_forecast, with the values the narrative is computed from
GetForecast(df) ==
    IF df = <<>> \/ Len(df) < MinRecords THEN [kind |-> "not_enough_data"]
    ELSE LET expense_df == ExpenseDf(df)
         IN  IF Len(expense_df) < MinRecords THEN [kind |-> "not_enough_expense"]
             ELSE IF \E i \in DOMAIN expense_df : expense_df[i].date = NaT
                  THEN [kind |-> "raised", error |-> "ValueError"]
                  ELSE LET daily == DailyExpenses(expense_df)
                           poly == Polyfit(daily)
                           last_day_ord == daily[Len(daily)].ordinal
                           future_ord == [k \in 1 .. ForecastHorizon |-> last_day_ord + k]
                           future_preds == [k \in 1 .. ForecastHorizon |->
                                               ClampNegative(poly.na * future_ord[k] + poly.nb)]
                       IN  [kind |-> "narrative",
                            series |-> daily,
                            slope |-> Frac(poly.na, poly.den),
                            intercept |-> Frac(poly.nb, poly.den),
                            future_ord |-> future_ord,
                            future_preds |-> [k \in 1 .. ForecastHorizon |-> Frac(future_preds[k], poly.den)],
                            total_forecast |-> Frac(SumSeq(future_preds), poly.den),
                            avg_daily_spend |-> Frac(SumSeq([i \in DOMAIN daily |-> daily[i].amount]), Len(daily))]

\* a call through the st.cache_data wrapper of get_forecast: a stored
\* value is returned as it is; a raised exception stores nothing
GetForecastCached(cache, df) ==
    IF Cached(cache, df) THEN [value |-> CacheGet(cache, df), cache |-> cache, hit |-> TRUE]
    ELSE The({[value |-> v, hit |-> FALSE,
               cache |-> IF v.kind = "raised" THEN cache
                         ELSE cache \cup {[key |-> df, value |-> v]}] :
                 v \in {GetForecast(df)}})

\* expense series for the trend: row i lies on day Today0 - 3 + s[i][1]
\* and spends s[i][2]
TrendAmounts == {10, 20, 30}
TrendPoints == (1 .. 3) \X TrendAmounts
SeriesRows(s) == [i \in DOMAIN s |-> [date |-> Today0 - 3 + s[i][1], category |-> "Groceries", amount |-> s[i][2]]]
\* a row put in front of the series: none, an income row in either spelling,
\* or an expense whose date does not parse
LeadRows ==
    {<<>>,
     <<[date |-> Today0, category |-> "Income", amount |-> 10]>>,
     <<[date |-> Today0, category |-> " INCOME ", amount |-> 10]>>,
     <<[date |-> NaT, category |-> "Groceries", amount |-> 10]>>}
TrendTables == {l \o SeriesRows(s) : l \in LeadRows, s \in SeqsUpTo(TrendPoints, MaxSeries)}

InitTrend ==
    /\ selected_project = "Default"
    /\ \E t \in TrendTables : projects = [p \in {"Default"} |-> t]
    /\ today = Today0
    /\ reverseTies = FALSE
    /\ snapshot = NoSnapshot
    /\ status_out = NoStatus
    /\ forecast = NoForecast
    /\ calls = 0
    /\ IdleServices

\* render_planning_tab's call get_forecast(df) on the selected project's table
PlanningForecast ==
    /\ Len(log) < MaxCalls
    /\ LET r == GetForecastCached(trend_cache, SelectedTable)
       IN  /\ trend_cache' = r.cache
           /\ log' = Append(log, [op |-> "get_forecast", df |-> SelectedTable, hit |-> r.hit,
                                  ext |-> <<>>, ret |-> r.value])
    /\ UNCHANGED <<projects, selected_project, today, reverseTies, snapshot, status_out, forecast, calls, ui>>
    /\ UNCHANGED <<ai_cache, category_cache, stock_cache, clock>>

NextTrend == PlanningForecast

SpecTrend == InitTrend /\ [][NextTrend]_vars

(***************************************************************************)
(* core/ai_services.py: the intent router                                  *)
(*                                                                         *)
(* A text is a sequence of tokens: the words, labels, blanks and           *)
(* punctuation marks it is made of.  No token of the model contains        *)
(* another one, so substring containment is the occurrence of a token.     *)
(***************************************************************************)
Labels ==
    {"BUDGETING", "FORECASTING", "CATEGORIZATION", "SAVINGS_INVESTMENT", "TAX_INFO",
     "CASH_MANAGEMENT", "REPORT_SUMMARY", "GENERAL_QUERY"}
\* the keys of system_prompts
TemplateKeys ==
    {"BUDGETING", "SAVINGS_INVESTMENT", "TAX_INFO", "CASH_MANAGEMENT", "REPORT_SUMMARY", "GENERAL_QUERY"}
ContextRows == 20
Whitespace == {" ", "\n", "NBSP"}

\* str.upper() and str.lower() on the tokens of the model
UpperToken(t) ==
    CASE t = "budgeting" -> "BUDGETING"
      [] t = "categorization" -> "CATEGORIZATION"
      [] t = "Forecasting" -> "FORECASTING"
      [] t = "Category:" -> "CATEGORY:"
      [] t = "unknown" -> "UNKNOWN"
      [] OTHER -> t
LowerToken(t) ==
    CASE t = "Categorize" -> "categorize"
      [] t = "Starbucks" -> "starbucks"
      [] OTHER -> t
Upper(s) == [i \in DOMAIN s |-> UpperToken(s[i])]
Lower(s) == [i \in DOMAIN s |-> LowerToken(s[i])]

\* str.strip()
RECURSIVE LStrip(_)
LStrip(s) == IF s # <<>> /\ Head(s) \in Whitespace THEN LStrip(Tail(s)) ELSE s
RECURSIVE RStrip(_)
RStrip(s) == IF s # <<>> /\ s[Len(s)] \in Whitespace THEN RStrip(SubSeq(s, 1, Len(s) - 1)) ELSE s
Strip(s) == RStrip(LStrip(s))

\* "LABEL" in intent
Contains(s, t) == \E i \in DOMAIN s : s[i] = t

\* str.replace("categorize", "")
RemoveCategorize(s) == LET P(t) == t # "categorize" IN SelectSeq(s, P)

\* insertion of a row into a sequence that is descending by date, behind
\* every row that is not earlier
RECURSIVE InsertByDate(_, _)
InsertByDate(sorted, r) ==
    IF sorted = <<>> THEN <<r>>
    ELSE IF Head(sorted).date >= r.date
         THEN <<Head(sorted)>> \o InsertByDate(Tail(sorted), r)
         ELSE <<r>> \o sorted
RECURSIVE StableByDate(_)
StableByDate(s) ==
    IF s = <<>> THEN <<>>
    ELSE InsertByDate(StableByDate(SubSeq(s, 1, Len(s) - 1)), s[Len(s)])

\* df.sort_values(by="date", ascending=False).head(20), or the placeholder
\* for an empty table
ContextSnippet(df, rev) ==
    IF df = <<>> THEN [placeholder |-> "No transactions yet.", rows |-> <<>>]
    ELSE [placeholder |-> "",
          rows |-> HeadN(IF rev THEN StableByDate(Reverse(df)) ELSE StableByDate(df), ContextRows)]

\* one external request, with what the service did with it
Request(service, purpose, arg, outcome) ==
    [service |-> service, purpose |-> purpose, arg |-> arg, outcome |-> outcome]

\* a categorization whose error reaches the caller
GetTransactionCategoryNoFallback(description, pred) ==
    [ext |-> <<Request("granite", "predict", description, pred)>>,
     raised |-> pred.raises # "none",
     value |-> IF pred.raises = "none" THEN pred.label ELSE pred.raises]

\* get_transaction_category: the label the service returns, "Other" when
\* the service raises
GetTransactionCategory(description, pred) ==
    [ext |-> <<Request("granite", "predict", description, pred)>>,
     raised |-> FALSE,
     value |-> IF pred.raises = "none" THEN pred.label ELSE "Other"]

\* a call through the st.cache_data wrapper of get_transaction_category
GetTransactionCategoryCached(cache, description, pred) ==
    IF Cached(cache, description)
    THEN [ext |-> <<>>, raised |-> FALSE, value |-> CacheGet(cache, description), cache |-> cache]
    ELSE LET r == GetTransactionCategory(description, pred)
         IN  [ext |-> r.ext, raised |-> r.raised, value |-> r.value,
              cache |-> IF r.raised THEN cache ELSE cache \cup {[key |-> description, value |-> r.value]}]

\* the two except clauses of get_ai_response
ErrorString(error) ==
    IF error = "GoogleAPICallError"
    THEN [kind |-> "api_error", detail |-> error]
    ELSE [kind |-> "unexpected_error", detail |-> error]

\* system_prompts.get(intent, system_prompts["GENERAL_QUERY"])
SystemPromptKey(intent) ==
    IF Len(intent) = 1 /\ intent[1] \in TemplateKeys THEN intent[1] ELSE "GENERAL_QUERY"

\* a generation that asks once more after a failed request
GenerateRetrying(key, user_query, context, gen) ==
    LET req == Request("gemini", "generate", [template |-> key, query |-> user_query, context |-> context], gen)
    IN  IF gen.raises = "none"
        THEN [ext |-> <<req>>, ret |-> [kind |-> "generated", text |-> gen.text]]
        ELSE [ext |-> <<req, req>>, ret |-> ErrorString(gen.raises)]

\* the generation branch: one generate_content(full_prompt)
Generate(key, user_query, context, gen) ==
    LET req == Request("gemini", "generate", [template |-> key, query |-> user_query, context |-> context], gen)
    IN  IF gen.raises = "none"
        THEN [ext |-> <<req>>, ret |-> [kind |-> "generated", text |-> gen.text]]
        ELSE [ext |-> <<req>>, ret |-> ErrorString(gen.raises)]

\* the body of get_ai_response for a query and a table, with what the
\* classifier (cls), the generator (gen) and the categorization service
\* (pred) do when they are asked
GetAiResponseBody(user_query, df, cls, gen, pred, ccache, tcache, rev) ==
    LET context == ContextSnippet(df, rev)
        classify == <<Request("gemini", "classify", user_query, cls)>>
        intent == Upper(Strip(cls.text))
    IN  IF cls.raises # "none"
        THEN [ext |-> classify, ret |-> ErrorString(cls.raises), ccache |-> ccache, tcache |-> tcache]
        ELSE IF Contains(intent, "CATEGORIZATION")
        THEN LET description == Strip(RemoveCategorize(Lower(user_query)))
             IN  The({[ext |-> classify \o c.ext,
                       ret |-> IF c.raised THEN ErrorString(c.value)
                               ELSE [kind |-> "sentence", description |-> description,
                                     category |-> c.value],
                       ccache |-> c.cache, tcache |-> tcache] :
                         c \in {GetTransactionCategoryCached(ccache, description, pred)}})
        ELSE IF Contains(intent, "FORECASTING")
        THEN The({[ext |-> classify,
                   ret |-> IF f.value.kind = "raised" THEN ErrorString(f.value.error)
                           ELSE f.value,
                   ccache |-> ccache, tcache |-> f.cache] :
                     f \in {GetForecastCached(tcache, df)}})
        ELSE The({[ext |-> classify \o g.ext, ret |-> g.ret, ccache |-> ccache,
                   tcache |-> tcache] :
                     g \in {Generate(SystemPromptKey(intent), user_query, context, gen)}})

\* the table argument of a call that passes none (core/stock_market.py)
Missing == "<missing>"

\* a cache that never finds an entry
CachedResponseNever(cache, user_query, df) == FALSE

\* the lookup of the st.cache_data wrapper of get_ai_response
CachedResponse(cache, user_query, df) == Cached(cache, <<user_query, df>>)

\* replies of the classifier
ClassifierReplies ==
    {<<"BUDGETING">>, <<"'", "BUDGETING", "'">>, <<" ", "budgeting", "\n">>,
     <<"TAX_INFO", ".">>, <<"GENERAL_QUERY">>, <<"unknown">>, <<>>,
     <<"CATEGORIZATION">>, <<"'", "categorization", "'", "\n">>,
     <<"FORECASTING">>, <<"FORECASTING", " ", "CATEGORIZATION">>}
ClassifierOutcomes ==
    {[raises |-> "none", text |-> t] : t \in ClassifierReplies}
    \cup {[raises |-> e, text |-> <<>>] : e \in {"GoogleAPICallError", "ValueError"}}
GeneratorOutcomes ==
    {[raises |-> "none", text |-> "answer A"]}
    \cup {[raises |-> e, text |-> ""] : e \in {"GoogleAPICallError", "ValueError"}}
PredictOutcomes ==
    {[raises |-> "none", label |-> "Groceries"], [raises |-> "Exception", label |-> ""]}
QueryInputs ==
    {<<"categorize", " ", "starbucks", " ", "coffee">>,
     <<" ", "Starbucks", " ", "coffee", " ", "Categorize", " ">>}
RouterTables ==
    {<<>>,
     <<[date |-> Today0 - 1, category |-> "Groceries", amount |-> 30],
       [date |-> Today0, category |-> "Groceries", amount |-> 20],
       [date |-> Today0, category |-> "Dining", amount |-> 10]>>}

InitRouter ==
    /\ selected_project = "Default"
    /\ \E t \in RouterTables : projects = [p \in {"Default"} |-> t]
    /\ today = Today0
    /\ reverseTies \in BOOLEAN
    /\ snapshot = NoSnapshot
    /\ status_out = NoStatus
    /\ forecast = NoForecast
    /\ calls = 0
    /\ IdleServices

\* one call of get_ai_response: render_chat_tab and render_planning_tab pass
\* the selected project's table, get_stock_analysis passes no table.  A
\* stored value is returned without running the body; a call that raises
\* stores nothing.
GetAiResponse(user_query, withTable, cls, gen, pred) ==
    /\ LET df == IF withTable THEN SelectedTable ELSE Missing
           Entry(hit, ext, ret) ==
               [op |-> "get_ai_response", query |-> user_query, df |-> df, hit |-> hit,
                ext |-> ext, ret |-> ret]
       IN  IF CachedResponse(ai_cache, user_query, df)
           THEN /\ log' = Append(log, Entry(TRUE, <<>>, CacheGet(ai_cache, <<user_query, df>>)))
                /\ UNCHANGED <<ai_cache, category_cache, trend_cache>>
           ELSE IF df = Missing
           THEN /\ log' = Append(log, Entry(FALSE, <<>>, [kind |-> "raised", error |-> "TypeError"]))
                /\ UNCHANGED <<ai_cache, category_cache, trend_cache>>
           ELSE LET r == GetAiResponseBody(user_query, df, cls, gen, pred,
                                           category_cache, trend_cache, reverseTies)
                IN  /\ log' = Append(log, Entry(FALSE, r.ext, r.ret))
                    /\ ai_cache' = ai_cache \cup {[key |-> <<user_query, df>>, value |-> r.ret]}
                    /\ category_cache' = r.ccache
                    /\ trend_cache' = r.tcache
    /\ UNCHANGED <<projects, selected_project, today, reverseTies, snapshot, status_out, forecast, calls, ui>>
    /\ UNCHANGED <<stock_cache, clock>>

\* a call of the router while no more than MaxCalls calls have been made
RouterCall(q, withTable, cls, gen, pred) ==
    /\ Len(log) < MaxCalls
    /\ GetAiResponse(q, withTable, cls, gen, pred)

NextRouter ==
    \E q \in QueryInputs, withTable \in BOOLEAN, cls \in ClassifierOutcomes,
       gen \in GeneratorOutcomes, pred \in PredictOutcomes :
        RouterCall(q, withTable, cls, gen, pred)

SpecRouter == InitRouter /\ [][NextRouter]_vars

(***************************************************************************)
(* core/stock_market.py: the cached stock data fetch                       *)
(***************************************************************************)
StockTtl == 300
\* a tick is two thirds of the time-to-live: one tick stays inside it, two leave it
TickSeconds == (2 * StockTtl) \div 3

\* a lookup that ignores the time-to-live
CachedFreshForever(cache, k, now) == \E e \in cache : e.key = k

\* the lookup of a st.cache_data(ttl=...) store: an entry counts until its
\* time-to-live has run out
CachedFresh(cache, k, now) == \E e \in cache : e.key = k /\ now < e.expires

\* the body of get_stock_data for a ticker, with what yfinance does (yf)
GetStockDataBody(ticker_symbol, yf) ==
    LET symbol == Strip(ticker_symbol)
        info_req == Request("yfinance", "info", symbol, yf.info)
        hist_req == Request("yfinance", "history", symbol, yf.history)
        Failure(ext, msg) == [ext |-> ext, ret |-> [info |-> "None", second |-> msg]]
    IN  IF ~yf.importable THEN Failure(<<>>, "yfinance not installed or failed to import")
        ELSE IF symbol = <<>> THEN Failure(<<>>, "Empty ticker symbol.")
        ELSE IF yf.info = "raises" THEN Failure(<<info_req>>, "Error while fetching data")
        ELSE IF yf.info = "no price" THEN Failure(<<info_req>>, "Could not find data")
        ELSE IF yf.history = "raises" THEN Failure(<<info_req, hist_req>>, "Error while fetching data")
        ELSE [ext |-> <<info_req, hist_req>>, ret |-> [info |-> yf.info, second |-> yf.history]]

YfinanceOutcomes ==
    {[importable |-> FALSE, info |-> "raises", history |-> "raises"],
     [importable |-> TRUE, info |-> "raises", history |-> "raises"],
     [importable |-> TRUE, info |-> "no price", history |-> "raises"],
     [importable |-> TRUE, info |-> "price 100", history |-> "raises"],
     [importable |-> TRUE, info |-> "price 100", history |-> "one year to day 0"],
     [importable |-> TRUE, info |-> "price 101", history |-> "one year to day 1"]}
TickerInputs == {<<"MSFT">>, <<" ">>}
CacheQueries == QueryInputs
CacheClassifierOutcomes ==
    {[raises |-> "none", text |-> <<"CATEGORIZATION">>], [raises |-> "none", text |-> <<"BUDGETING">>]}
CacheGeneratorOutcomes ==
    {[raises |-> "none", text |-> "answer A"], [raises |-> "none", text |-> "answer B"],
     [raises |-> "GoogleAPICallError", text |-> ""]}
CachePredictOutcomes ==
    {[raises |-> "none", label |-> "Groceries"], [raises |-> "Exception", label |-> ""]}

InitCache ==
    /\ selected_project = "Default"
    /\ projects = [p \in {"Default"} |-> <<>>]
    /\ today = Today0
    /\ reverseTies = FALSE
    /\ snapshot = NoSnapshot
    /\ status_out = NoStatus
    /\ forecast = NoForecast
    /\ calls = 0
    /\ IdleServices

\* one call of get_stock_data (render_market_tab): a stored value that has
\* not run out is returned without running the body; otherwise the body
\* runs and its result, failures included, is stored for StockTtl seconds
GetStockData(ticker_symbol, yf) ==
    /\ Len(log) < MaxLookups
    /\ LET Entry(hit, ext, ret) ==
               [op |-> "get_stock_data", ticker |-> ticker_symbol, at |-> clock, hit |-> hit,
                ext |-> ext, ret |-> ret]
       IN  IF CachedFresh(stock_cache, ticker_symbol, clock)
           THEN /\ log' = Append(log, Entry(TRUE, <<>>, CacheGet(stock_cache, ticker_symbol)))
                /\ UNCHANGED stock_cache
           ELSE LET r == GetStockDataBody(ticker_symbol, yf)
                IN  /\ log' = Append(log, Entry(FALSE, r.ext, r.ret))
                    /\ stock_cache' = {e \in stock_cache : e.key # ticker_symbol}
                                        \cup {[key |-> ticker_symbol, value |-> r.ret,
                                               expires |-> clock + StockTtl]}
    /\ UNCHANGED <<projects, selected_project, today, reverseTies, snapshot, status_out, forecast, calls, ui>>
    /\ UNCHANGED <<ai_cache, category_cache, trend_cache, clock>>

\* time passes between two reruns
Tick ==
    /\ clock < MaxTicks * TickSeconds
    /\ clock' = clock + TickSeconds
    /\ UNCHANGED <<projects, selected_project, today, reverseTies, snapshot, status_out, forecast, calls, ui>>
    /\ UNCHANGED <<ai_cache, category_cache, trend_cache, stock_cache, log>>

\* a chat call while no more than MaxLookups calls have been made
ChatLookup(q, cls, gen, pred) ==
    /\ Len(log) < MaxLookups
    /\ GetAiResponse(q, TRUE, cls, gen, pred)

NextCache ==
    \/ \E q \in CacheQueries, cls \in CacheClassifierOutcomes,
          gen \in CacheGeneratorOutcomes, pred \in CachePredictOutcomes :
           ChatLookup(q, cls, gen, pred)
    \/ \E t \in TickerInputs, yf \in YfinanceOutcomes : GetStockData(t, yf)
    \/ Tick

SpecCache == InitCache /\ [][NextCache]_vars

(***************************************************************************)
(* core/stock_market.py: the AI analysis of a stock                        *)
(***************************************************************************)
\* the prompt get_stock_analysis builds from the fields of info
StockPrompt(info) == <<"stock", " ", "snapshot", " ", info>>

\* the table get_stock_analysis passes to get_ai_response: none
AnalysisTable == Missing

\* get_ai_response(prompt) as get_stock_analysis calls it, through the
\* st.cache_data wrapper: a call without the table raises TypeError before
\* the body runs, and a call that raises stores nothing
AnalysisCall(cache, prompt, df, cls, gen, pred) ==
    IF CachedResponse(cache, prompt, df)
    THEN [ext |-> <<>>, ret |-> CacheGet(cache, <<prompt, df>>), cache |-> cache]
    ELSE IF df = Missing
    THEN [ext |-> <<>>, ret |-> [kind |-> "raised", error |-> "TypeError"], cache |-> cache]
    ELSE The({[ext |-> r.ext, ret |-> r.ret,
               cache |-> cache \cup {[key |-> <<prompt, df>>, value |-> r.ret]}] :
                 r \in {GetAiResponseBody(prompt, df, cls, gen, pred, {}, {}, FALSE)}})

\* the except clause of get_stock_analysis
AnalysisGuard(ret) ==
    IF ret.kind = "raised" THEN [kind |-> "analysis_error", detail |-> ret.error] ELSE ret

AnalysisInfos == {"price 100", "price 101"}
AnalysisClassifierOutcomes ==
    {[raises |-> "none", text |-> <<"GENERAL_QUERY">>], [raises |-> "ValueError", text |-> <<>>]}

\* one call of get_stock_analysis (render_market_tab, the button Generate
\* AI Analysis), with what the services do if they are asked
GetStockAnalysis(info, cls, gen, pred) ==
    /\ Len(log) < MaxLookups
    /\ \E call \in {AnalysisCall(ai_cache, StockPrompt(info), AnalysisTable, cls, gen, pred)} :
           /\ log' = Append(log, [op |-> "get_stock_analysis", info |-> info, cls |-> cls,
                                  gen |-> gen, ext |-> call.ext,
                                  hit |-> CachedResponse(ai_cache, StockPrompt(info),
                                                         AnalysisTable),
                                  raised |-> call.ret.kind = "raised",
                                  ret |-> AnalysisGuard(call.ret)])
           /\ ai_cache' = call.cache
    /\ UNCHANGED <<projects, selected_project, today, reverseTies, snapshot, status_out, forecast, calls, ui>>
    /\ UNCHANGED <<category_cache, trend_cache, stock_cache, clock>>

NextAnalysis ==
    \E info \in AnalysisInfos, cls \in AnalysisClassifierOutcomes,
       gen \in CacheGeneratorOutcomes, pred \in CachePredictOutcomes :
        GetStockAnalysis(info, cls, gen, pred)

SpecAnalysis == InitCache /\ [][NextAnalysis]_vars

(***************************************************************************)
(* ui/sidebar.py: amount parsing                                           *)
(*                                                                         *)
(* An amount text is the sequence of its characters; RUPEE stands for the  *)
(* rupee sign, NBSP for the no-break space, DEV_RA and DEV_U for the two   *)
(* code points of the Devanagari abbreviation.  A Decimal is kept as the   *)
(* digits before and after the point.                                      *)
(***************************************************************************)
Digits == <<"0", "1", "2", "3", "4", "5", "6", "7", "8", "9">>
IsDigit(c) == c \in Range(Digits)
DigitValue(c) == (CHOOSE i \in DOMAIN Digits : Digits[i] = c) - 1
\* MAX_AMOUNT_DEC has twelve nines before the point and ten after it
MaxIntDigits == 12
MaxDecimals == 10

\* str.replace(pat, rep)
RECURSIVE ReplaceAll(_, _, _)
ReplaceAll(s, pat, rep) ==
    IF Len(s) < Len(pat) THEN s
    ELSE IF SubSeq(s, 1, Len(pat)) = pat
         THEN rep \o ReplaceAll(SubSeq(s, Len(pat) + 1, Len(s)), pat, rep)
         ELSE <<Head(s)>> \o ReplaceAll(Tail(s), pat, rep)

\* the chain of replacements of _normalize_amount_text
ReplaceMarkers(t) ==
    LET t1 == ReplaceAll(t, <<",">>, <<" ">>)
        t2 == ReplaceAll(t1, <<"NBSP">>, <<" ">>)
        t3 == ReplaceAll(t2, <<"I", "N", "R">>, <<>>)
        t4 == ReplaceAll(t3, <<"i", "n", "r">>, <<>>)
        t5 == ReplaceAll(t4, <<"R", "s", ".">>, <<>>)
        t6 == ReplaceAll(t5, <<"R", "s">>, <<>>)
        t7 == ReplaceAll(t6, <<"r", "s">>, <<>>)
        t8 == ReplaceAll(t7, <<"DEV_RA", "DEV_U">>, <<>>)
    IN  ReplaceAll(t8, <<"RUPEE">>, <<>>)

\* a sanitizer that removes nothing
SanitizeNothing(t) == t

\* _amount_sanitize_re.sub("", t): only digits and dots stay
Sanitize(t) == SelectSeq(t, LAMBDA c : IsDigit(c) \/ c = ".")

\* head + "." + "".join(rest) when there is more than one dot
CollapseDots(t) ==
    LET dots == {i \in DOMAIN t : t[i] = "."}
    IN  IF Cardinality(dots) > 1
        THEN LET first == CHOOSE i \in dots : \A j \in dots : i <= j
             IN  SubSeq(t, 1, first)
                   \o SelectSeq(SubSeq(t, first + 1, Len(t)), LAMBDA c : c # ".")
        ELSE t

\* _normalize_amount_text
NormalizeAmountText(text) ==
    IF text = <<>> THEN <<>>
    ELSE Strip(CollapseDots(Sanitize(ReplaceMarkers(Strip(text)))))

\* leading zeros do not count in the coefficient of a Decimal
RECURSIVE DropLeadingZeros(_)
DropLeadingZeros(d) == IF d # <<>> /\ Head(d) = "0" THEN DropLeadingZeros(Tail(d)) ELSE d

\* Decimal(norm): the digits before and after the point; InvalidOperation
\* when norm is not an unsigned decimal numeral
DecimalOf(norm) ==
    LET dots == {i \in DOMAIN norm : norm[i] = "."}
        point == IF dots = {} THEN Len(norm) + 1 ELSE CHOOSE i \in dots : TRUE
        whole == SubSeq(norm, 1, point - 1)
        frac == SubSeq(norm, point + 1, Len(norm))
    IN  IF \/ Cardinality(dots) > 1
           \/ \E i \in DOMAIN norm : ~IsDigit(norm[i]) /\ norm[i] # "."
           \/ whole \o frac = <<>>
        THEN [valid |-> FALSE]
        ELSE [valid |-> TRUE, whole |-> DropLeadingZeros(whole), frac |-> frac]

\* d > MAX_AMOUNT_DEC
AboveMax(d) ==
    IF Len(d.whole) # MaxIntDigits THEN Len(d.whole) > MaxIntDigits
    ELSE /\ \A i \in DOMAIN d.whole : d.whole[i] = "9"
         /\ Len(d.frac) > MaxDecimals
         /\ \A i \in 1 .. MaxDecimals : d.frac[i] = "9"
         /\ \E i \in (MaxDecimals + 1) .. Len(d.frac) : d.frac[i] # "0"

\* the numeral that is one more in its last place
RECURSIVE Increment(_)
Increment(digits) ==
    IF digits = <<>> THEN <<"1">>
    ELSE LET last == digits[Len(digits)]
             front == SubSeq(digits, 1, Len(digits) - 1)
         IN  IF last = "9" THEN Increment(front) \o <<"0">>
             ELSE front \o <<Digits[DigitValue(last) + 2]>>

\* d.quantize(Decimal("0.0000000001")): ten decimals, half rounds to even
Quantize(d) ==
    LET kept == SubSeq(d.frac, 1, MaxDecimals)
        rest == SubSeq(d.frac, MaxDecimals + 1, Len(d.frac))
        tailNonZero == \E i \in 2 .. Len(rest) : rest[i] # "0"
        first == DigitValue(rest[1])
        up == \/ first > 5
              \/ first = 5 /\ tailNonZero
              \/ first = 5 /\ ~tailNonZero /\ DigitValue(kept[MaxDecimals]) % 2 = 1
        coefficient == IF up THEN Increment(d.whole \o kept) ELSE d.whole \o kept
    IN  [valid |-> TRUE,
         whole |-> DropLeadingZeros(SubSeq(coefficient, 1, Len(coefficient) - MaxDecimals)),
         frac |-> SubSeq(coefficient, Len(coefficient) - MaxDecimals + 1, Len(coefficient))]

\* _decimal_from_text: None for an empty or invalid numeral and for a value
\* above the maximum (d < 0 cannot arise from an unsigned numeral); at most
\* ten decimals otherwise
DecimalFromText(text) ==
    LET norm == NormalizeAmountText(text)
        d == DecimalOf(norm)
    IN  IF norm = <<>> THEN [valid |-> FALSE]
        ELSE IF ~d.valid THEN [valid |-> FALSE]
        ELSE IF AboveMax(d) THEN [valid |-> FALSE]
        ELSE IF Len(d.frac) > MaxDecimals THEN Quantize(d) ELSE d

\* amounts as they are typed: digits, optionally a point and decimals
WholeInputs == {<<"5">>, <<"0">>, <<"1", "2", "0", "0", "0">>}
FracInputs ==
    {<<>>, <<".", "5", "0">>, <<".", "5">>, <<".", "2", "5">>,
     <<".", "0", "0", "0", "0", "0", "0", "0", "0", "0", "2", "5">>,
     <<".", "0", "0", "0", "0", "0", "0", "0", "0", "0", "1", "5">>,
     <<".", "9", "9", "9", "9", "9", "9", "9", "9", "9", "9", "6">>}
\* the currency markers put in front of an amount or behind it
PrefixInputs ==
    {<<>>, <<"RUPEE">>, <<"R", "s">>, <<"R", "s", ".">>, <<"R", "s", " ">>, <<"I", "N", "R", " ">>,
     <<"i", "n", "r">>, <<"r", "s", " ">>, <<" ">>}
SuffixInputs == {<<>>, <<" ">>, <<" ", "I", "N", "R">>}
\* the separator put in front of the last three digits of a long amount
SeparatorInputs == {<<>>, <<",">>, <<" ">>, <<"NBSP">>}
Grouped(whole, sep) ==
    IF Len(whole) > 3
    THEN SubSeq(whole, 1, Len(whole) - 3) \o sep \o SubSeq(whole, Len(whole) - 2, Len(whole))
    ELSE whole
\* a typed amount with its decoration: the text and the digits it decorates
AmountInputs ==
    {[text |-> pre \o Grouped(w, sep) \o f \o suf, plain |-> w \o f] :
        pre \in PrefixInputs, w \in WholeInputs, sep \in SeparatorInputs,
        f \in FracInputs, suf \in SuffixInputs}
\* texts that are no amount
OtherTexts ==
    {[text |-> t, plain |-> <<>>] :
        t \in {<<>>, <<".">>, <<"R", "s">>, <<"1", ".", "2", ".", "3">>, <<"-", "5">>}}

\* typed amounts at, above and below the limits of MAX_AMOUNT_DEC
Nines(n) == [i \in 1 .. n |-> "9"]
LimitTexts ==
    {[text |-> t, plain |-> <<>>] :
        t \in {Nines(12) \o <<".">> \o Nines(10),
               Nines(12) \o <<".">> \o Nines(10) \o <<"1">>,
               Nines(12) \o <<".">> \o Nines(9) \o <<"8", "9">>,
               Nines(13),
               <<"1">> \o [i \in 1 .. 12 |-> "0"],
               <<"0">> \o Nines(12),
               <<"-", "1", "2", ",", "0", "0", "0", ".", "5", "0">>,
               <<"-", "0">>,
               <<"-", "RUPEE", "5">>}}

InitAmount ==
    /\ selected_project = NoProject
    /\ projects = <<>>
    /\ today = Today0
    /\ reverseTies = FALSE
    /\ snapshot = NoSnapshot
    /\ status_out = NoStatus
    /\ forecast = NoForecast
    /\ calls = 0
    /\ IdleServices

\* amount_block's call _decimal_from_text(text) on the typed text
DecimalFromTextCall(input) ==
    /\ log = <<>>
    /\ log' = Append(log, [op |-> "_decimal_from_text", text |-> input.text, plain |-> input.plain,
                           norm |-> NormalizeAmountText(input.text),
                           ret |-> DecimalFromText(input.text)])
    /\ UNCHANGED <<projects, selected_project, today, reverseTies, snapshot, status_out, forecast, calls, ui>>
    /\ UNCHANGED <<ai_cache, category_cache, trend_cache, stock_cache, clock>>

NextAmount == \E input \in AmountInputs \cup OtherTexts \cup LimitTexts : DecimalFromTextCall(input)

SpecAmount == InitAmount /\ [][NextAmount]_vars

(***************************************************************************)
(* What the specification says the snapshot holds, stated on the raw table *)
(***************************************************************************)
RECURSIVE SumOver(_, _)
SumOver(tbl, I) ==
    IF I = {} THEN 0
    ELSE LET i == CHOOSE j \in I : TRUE
         IN  (IF tbl[i].amount = NaN THEN 0 ELSE tbl[i].amount) + SumOver(tbl, I \ {i})

Min(a, b) == IF a < b THEN a ELSE b

\* indices of the rows dated inside [lo, hi]
Dated(tbl, lo, hi) == {i \in DOMAIN tbl : tbl[i].date # NaT /\ tbl[i].date >= lo /\ tbl[i].date <= hi}
IncomeOf(tbl, I) == {i \in I : tbl[i].category \in IncomeSpellings}
ExpenseOf(tbl, I) == {i \in I : tbl[i].category \notin IncomeSpellings}
CategoryOf(tbl, I, c) == {i \in I : tbl[i].category = c}
CategoriesOf(tbl, I) == {tbl[i].category : i \in I}

\* the current and the previous window of the last metrics call
CurIdx == Dated(SelectedTable, snapshot.at - snapshot.days + 1, snapshot.at)
PrevIdx == Dated(SelectedTable, snapshot.at - 2 * snapshot.days + 1, snapshot.at - snapshot.days)
CurExpenseSum(c) == SumOver(SelectedTable, CategoryOf(SelectedTable, ExpenseOf(SelectedTable, CurIdx), c))
PrevExpenseSum(c) == SumOver(SelectedTable, CategoryOf(SelectedTable, ExpenseOf(SelectedTable, PrevIdx), c))
CurExpenseCategories == CategoriesOf(SelectedTable, ExpenseOf(SelectedTable, CurIdx))

Top == snapshot.metrics.current.top_categories
Spikes == snapshot.metrics.category_spikes
TopNames == {Top[i].category : i \in DOMAIN Top}
SpikeNames == {Spikes[i].category : i \in DOMAIN Spikes}

\* the percentage change the specification gives a category
SpecPct(c) ==
    IF PrevExpenseSum(c) > 0
    THEN Frac((CurExpenseSum(c) - PrevExpenseSum(c)) * 100, PrevExpenseSum(c))
    ELSE IF CurExpenseSum(c) > 0 THEN FracOfInt(100) ELSE FracOfInt(0)

(***************************************************************************)
(* C1: _local_status returns the status of the first matching rule:        *)
(* (1) income <= 0 and expense > 0 -> THUNDERSTORMS; (2) net >= 0 and      *)
(* savings rate >= 20 and every spike below 15 -> CLEAR_SKIES; (3) net >=  *)
(* 0 and (savings rate >= 5 or every spike below 25) -> PARTLY_CLOUDY;     *)
(* (4) net < 0 and |net| <= 0.2*max(income,1) -> LIGHT_SHOWERS; (5)        *)
(* otherwise THUNDERSTORMS.  income=0/expense=100 gives THUNDERSTORMS,     *)
(* income=1000/expense=600 without spikes CLEAR_SKIES, income=1000/        *)
(* expense=1100 LIGHT_SHOWERS.                                             *)
(***************************************************************************)
C1_FirstMatchingRule ==
    status_out.called =>
        LET c == snapshot.metrics.current
            sp == snapshot.metrics.category_spikes
            rate == c.savings_rate_pct
            RateAtLeast(k) == rate[1] >= k * rate[2]
            SpikesBelow(k) == \A i \in DOMAIN sp : sp[i].pct_change[1] < k * sp[i].pct_change[2]
            R1 == c.income <= 0 /\ c.expense > 0
            R2 == c.net >= 0 /\ RateAtLeast(20) /\ SpikesBelow(15)
            R3 == c.net >= 0 /\ (RateAtLeast(5) \/ SpikesBelow(25))
            R4 == c.net < 0 /\ 5 * (0 - c.net) <= (IF c.income > 1 THEN c.income ELSE 1)
            st == status_out.status
        IN  /\ R1 => st = "THUNDERSTORMS"
            /\ (~R1 /\ R2) => st = "CLEAR_SKIES"
            /\ (~R1 /\ ~R2 /\ R3) => st = "PARTLY_CLOUDY"
            /\ (~R1 /\ ~R2 /\ ~R3 /\ R4) => st = "LIGHT_SHOWERS"
            /\ (~R1 /\ ~R2 /\ ~R3 /\ ~R4) => st = "THUNDERSTORMS"
            /\ (c.income = 0 /\ c.expense = 100) => st = "THUNDERSTORMS"
            /\ (c.income = 1000 /\ c.expense = 600 /\ sp = <<>>) => st = "CLEAR_SKIES"
            /\ (c.income = 1000 /\ c.expense = 1100) => st = "LIGHT_SHOWERS"

\* the third rule decides through the spikes alone: no savings, an 24% spike
C1_Witness ==
    /\ status_out.called
    /\ snapshot.metrics.current.income = 1000
    /\ snapshot.metrics.current.expense = 1000
    /\ Len(snapshot.metrics.category_spikes) = 2
    /\ snapshot.metrics.category_spikes[1].cur = 124
    /\ snapshot.metrics.category_spikes[2].cur = 50
    /\ status_out.status = "PARTLY_CLOUDY"

(***************************************************************************)
(* C2: on a table with at least one dated row compute_forecast never       *)
(* raises; it returns the local-rule verdict (status of _local_status,     *)
(* score 65 for CLEAR_SKIES or PARTLY_CLOUDY and 35 otherwise, empty       *)
(* explanation, the headline of the status) when no backend is available,  *)
(* the call raises, the text is not JSON or the parsed value has no status *)
(* field, and the AI object only otherwise.                                *)
(***************************************************************************)
HasDatedRow == \E i \in DOMAIN ProjectTable : ProjectTable[i].date # NaT

\* the reply is an object with a status field
RepliesVerdict(gem) ==
    /\ gem.available
    /\ ~gem.raises
    /\ ParseJsonMaybe(gem.text).kind = "dict"
    /\ "status" \in ParseJsonMaybe(gem.text).keys

C2_FallbackOrAiObject ==
    (forecast.called /\ HasDatedRow) =>
        /\ ~forecast.ret.raised
        /\ IF RepliesVerdict(forecast.gem)
           THEN forecast.ret.obj = ParseJsonMaybe(forecast.gem.text)
           ELSE LET o == forecast.ret.obj
                    st == LocalStatus(forecast.ret.metrics)[1]
                IN  /\ o.kind = "dict"
                    /\ o.keys = VerdictKeys
                    /\ o.status = st
                    /\ o.score = (IF st \in {"CLEAR_SKIES", "PARTLY_CLOUDY"} THEN 65 ELSE 35)
                    /\ o.explanation = ""
                    /\ o.headline = FallbackHeadline(st, forecast.ret.metrics)

(***************************************************************************)
(* C3: every verdict compute_forecast returns for a table with a dated row *)
(* is structurally valid: status one of the four, at most 3 actions, score *)
(* an integer in 0..100.                                                   *)
(***************************************************************************)
C3_VerdictValid ==
    (forecast.called /\ HasDatedRow /\ ~forecast.ret.raised) =>
        LET o == forecast.ret.obj
        IN  /\ o.kind = "dict"
            /\ VerdictKeys \subseteq o.keys
            /\ o.status \in Statuses
            /\ Len(o.actions) <= 3
            /\ o.score \in 0 .. 100

(***************************************************************************)
(* C9 as stated: without a project table, with an empty one or with one    *)
(* that has no dated row, compute_forecast returns without error a         *)
(* snapshot with period_days set and every other field present and zero or *)
(* empty.                                                                  *)
(***************************************************************************)
C9_EmptySnapshotHasAllFields ==
    (forecast.called /\ ~HasDatedRow) =>
        /\ ~forecast.ret.raised
        /\ forecast.ret.metrics.period_days = forecast.days
        /\ {"current", "previous", "category_spikes"} \subseteq DOMAIN forecast.ret.metrics
        /\ forecast.ret.metrics.current.income = 0
        /\ forecast.ret.metrics.current.expense = 0
        /\ forecast.ret.metrics.current.net = 0
        /\ forecast.ret.metrics.current.savings_rate_pct[1] = 0
        /\ forecast.ret.metrics.current.top_categories = <<>>
        /\ forecast.ret.metrics.previous.income = 0
        /\ forecast.ret.metrics.previous.expense = 0
        /\ forecast.ret.metrics.previous.net = 0
        /\ forecast.ret.metrics.category_spikes = <<>>

(***************************************************************************)
(* C9 amended: in those cases compute_forecast returns without error the   *)
(* marker {"empty": True} and a snapshot that holds period_days and no     *)
(* other field; the backend is not consulted.                              *)
(***************************************************************************)
C9_EmptySnapshotOnlyPeriod ==
    (forecast.called /\ ~HasDatedRow) =>
        /\ ~forecast.ret.raised
        /\ forecast.ret.obj = EmptyMarker
        /\ DOMAIN forecast.ret.metrics = {"period_days"}
        /\ forecast.ret.metrics.period_days = forecast.days

\* a table of undated rows only, with a backend that would have answered
C9_Witness ==
    /\ forecast.called
    /\ selected_project \in DOMAIN projects
    /\ Len(ProjectTable) = 2
    /\ ~HasDatedRow
    /\ RepliesVerdict(forecast.gem)
    /\ forecast.ret.source = "empty"

(***************************************************************************)
(* C4 as stated: savings_rate_pct is 0 exactly when current.income <= 0.   *)
(* The code also reports 0 when income and expense are equal.              *)
(***************************************************************************)
C4_RateZeroIffNoIncome ==
    snapshot.called =>
        (snapshot.metrics.current.savings_rate_pct[1] = 0
            <=> snapshot.metrics.current.income <= 0)

(***************************************************************************)
(* C4 amended: savings_rate_pct is 0 exactly when current.income <= 0 or   *)
(* current.income equals current.expense; in particular income <= 0        *)
(* implies a rate of 0.                                                    *)
(***************************************************************************)
C4_RateZeroIffNoIncomeOrNoNet ==
    snapshot.called =>
        LET c == snapshot.metrics.current
        IN  /\ c.savings_rate_pct[2] > 0
            /\ c.savings_rate_pct[1] = 0 <=> (c.income <= 0 \/ c.income = c.expense)

C4_Witness ==
    /\ snapshot.called
    /\ snapshot.metrics.current.income > 0
    /\ snapshot.metrics.current.income = snapshot.metrics.current.expense
    /\ snapshot.metrics.current.savings_rate_pct[1] = 0

(***************************************************************************)
(* C5: category_spikes has at most 3 entries, ordered by pct_change        *)
(* descending, entries of equal pct_change by delta descending.            *)
(***************************************************************************)
C5_SpikesSorted ==
    snapshot.called =>
        /\ Len(Spikes) <= 3
        /\ \A i \in DOMAIN Spikes : \A j \in DOMAIN Spikes :
              i < j =>
                /\ FracGe(Spikes[i].pct_change, Spikes[j].pct_change)
                /\ FracEq(Spikes[i].pct_change, Spikes[j].pct_change)
                     => Spikes[i].delta >= Spikes[j].delta

C5_Witness ==
    /\ snapshot.called
    /\ Len(Top) > 3
    /\ Len(Spikes) = 3
    /\ FracEq(Spikes[1].pct_change, Spikes[2].pct_change)
    /\ Spikes[1].delta > Spikes[2].delta
    /\ Spikes[1].prev = 0
    /\ Spikes[2].prev > 0
    /\ \E c \in TopNames \ SpikeNames : FracLt(SpecPct(c), Spikes[3].pct_change)

(***************************************************************************)
(* C6: every category_spikes entry belongs to a top-5 category, with cur   *)
(* its current-window expense sum, prev its previous-window expense sum (0 *)
(* when absent), delta = cur - prev, pct_change = delta/prev*100 when      *)
(* prev > 0, else 100 when cur > 0, else 0; the entries kept are the 3     *)
(* largest, so no dropped top-5 category has a larger pct_change.          *)
(***************************************************************************)
C6_SpikeEntries ==
    snapshot.called =>
        /\ Len(Spikes) = Min(3, Len(Top))
        /\ Cardinality(SpikeNames) = Len(Spikes)
        /\ \A i \in DOMAIN Spikes :
              LET e == Spikes[i]
              IN  /\ e.category \in TopNames
                  /\ e.cur = CurExpenseSum(e.category)
                  /\ e.prev = PrevExpenseSum(e.category)
                  /\ e.delta = e.cur - e.prev
                  /\ e.pct_change[2] > 0
                  /\ FracEq(e.pct_change, SpecPct(e.category))
        /\ \A c \in TopNames \ SpikeNames : \A i \in DOMAIN Spikes :
              FracGe(Spikes[i].pct_change, SpecPct(c))

C6_Witness ==
    /\ snapshot.called
    /\ Len(Top) = 5
    /\ \E i \in DOMAIN Spikes : Spikes[i].prev > 0 /\ Spikes[i].delta > 0
    /\ \E i \in DOMAIN Spikes : Spikes[i].prev = 0 /\ Spikes[i].cur > 0
    /\ \E c \in TopNames \ SpikeNames :
          /\ PrevExpenseSum(c) > CurExpenseSum(c)
          /\ FracLt(SpecPct(c), Spikes[3].pct_change)

(***************************************************************************)
(* C7: top_categories holds only non-income categories that have a         *)
(* transaction in the current window, at most 5 of them, each with the sum *)
(* of its current-window amounts, in descending order of that sum, and no  *)
(* omitted expense category has a larger sum than an included one.         *)
(***************************************************************************)
C7_TopCategories ==
    snapshot.called =>
        /\ Len(Top) = Min(5, Cardinality(CurExpenseCategories))
        /\ Cardinality(TopNames) = Len(Top)
        /\ \A i \in DOMAIN Top :
              /\ Top[i].category \in CurExpenseCategories
              /\ Top[i].category \notin IncomeSpellings
              /\ Top[i].amount = CurExpenseSum(Top[i].category)
        /\ \A i \in DOMAIN Top : \A j \in DOMAIN Top :
              i < j => Top[i].amount >= Top[j].amount
        /\ \A c \in CurExpenseCategories \ TopNames : \A i \in DOMAIN Top :
              CurExpenseSum(c) <= Top[i].amount

C7_Witness ==
    /\ snapshot.called
    /\ Cardinality(CurExpenseCategories) = 6
    /\ Len(Top) = 5
    /\ Top[1].amount > Top[5].amount
    /\ \E c \in CurExpenseCategories \ TopNames : CurExpenseSum(c) < Top[5].amount
    /\ \E i \in DOMAIN Top :
          Cardinality(CategoryOf(SelectedTable, CurIdx, Top[i].category)) > 1

(***************************************************************************)
(* C8: the current window is the `days` days ending today, the previous    *)
(* window the `days` days before it; a transaction dated in neither is not *)
(* counted; income is the sum of the records whose trimmed, lowercased     *)
(* category is 'income', expense the sum of all others, net = income -     *)
(* expense, in both windows.                                               *)
(***************************************************************************)
C8_Windows ==
    snapshot.called =>
        LET m == snapshot.metrics
            tbl == SelectedTable
        IN  /\ m.period_days = snapshot.days
            /\ CurIdx \cap PrevIdx = {}
            /\ m.current.income = SumOver(tbl, IncomeOf(tbl, CurIdx))
            /\ m.current.expense = SumOver(tbl, ExpenseOf(tbl, CurIdx))
            /\ m.current.net = m.current.income - m.current.expense
            /\ m.previous.income = SumOver(tbl, IncomeOf(tbl, PrevIdx))
            /\ m.previous.expense = SumOver(tbl, ExpenseOf(tbl, PrevIdx))
            /\ m.previous.net = m.previous.income - m.previous.expense

\* a row on the first day of the current window, spelt ' INCOME ', and a
\* row on the day before the previous window starts
C8_Witness ==
    /\ snapshot.called
    /\ snapshot.days = 2
    /\ \E i \in CurIdx :
          /\ SelectedTable[i].date = snapshot.at - snapshot.days + 1
          /\ SelectedTable[i].category = " INCOME "
    /\ \E i \in DOMAIN SelectedTable :
          SelectedTable[i].date = snapshot.at - 2 * snapshot.days
    /\ snapshot.metrics.current.income > 0
    /\ snapshot.metrics.previous.income = 0
    /\ snapshot.metrics.previous.expense = 0

TrendCalls == {i \in DOMAIN log : log[i].op = "get_forecast"}
InsufficientKinds == {"not_enough_data", "not_enough_expense"}
\* the last day of a daily expense series
LastDay(series) ==
    CHOOSE d \in {series[k].ordinal : k \in DOMAIN series} :
        \A k \in DOMAIN series : series[k].ordinal <= d

\* C17: get_forecast returns an insufficient-data message, without raising
\* and without an external call, exactly when the table holds fewer than 3
\* expense records once the income records are left out; with 3 or more it
\* returns the narrative.
C17_InsufficientIffFewExpenses ==
    \A i \in TrendCalls :
        LET n == Len(ExpenseDfAnySpelling(log[i].df))
        IN  /\ log[i].ext = <<>>
            /\ log[i].ret.kind # "raised"
            /\ (n < MinRecords) <=> (log[i].ret.kind \in InsufficientKinds)
            /\ (n >= MinRecords) => (log[i].ret.kind = "narrative")

\* C18: the trend forecast leaves a record out of its expense series exactly
\* when the record's category, trimmed and lowercased, is "income", as the
\* Metrics Aggregator does.
C18_SameIncomeRule ==
    \A i \in TrendCalls :
        LET spec_expense == ExpenseDfAnySpelling(log[i].df)
        IN  /\ (log[i].ret.kind = "not_enough_expense")
                  <=> (Len(log[i].df) >= MinRecords /\ Len(spec_expense) < MinRecords)
            /\ (log[i].ret.kind = "narrative")
                  => (log[i].ret.series = DailyExpenses(spec_expense))

\* C19: the line fitted to the daily expense series (the least-squares line
\* when the series has two days or more) is evaluated on exactly the 30
\* consecutive days after the last day of the series, every negative value
\* is replaced by 0 and the 30 values are summed, so every projected value
\* and the total are >= 0; for 10, 20, 30 on three consecutive days the
\* slope is positive.
C19_ProjectionClamped ==
    \A i \in TrendCalls :
        (log[i].ret.kind = "narrative") =>
            LET r == log[i].ret
                last == LastDay(r.series)
                Line(t) == r.slope[1] * t + r.intercept[1]
                Residual(e) == r.slope[2] * e.amount - Line(e.ordinal)
                ResidualSum == SumSeq([k \in DOMAIN r.series |-> Residual(r.series[k])])
                ResidualMoment ==
                    SumSeq([k \in DOMAIN r.series |-> r.series[k].ordinal * Residual(r.series[k])])
                Num(q) == q[1]
                TenTwentyThirty ==
                    /\ Len(r.series) = 3
                    /\ \A k \in 1 .. 3 : r.series[k] = [ordinal |-> r.series[1].ordinal + k - 1, amount |-> 10 * k]
            IN  /\ r.slope[2] > 0 /\ r.intercept[2] = r.slope[2]
                /\ Len(r.series) >= 2 => (ResidualSum = 0 /\ ResidualMoment = 0)
                /\ Len(r.future_ord) = ForecastHorizon
                /\ Len(r.future_preds) = ForecastHorizon
                /\ \A k \in 1 .. ForecastHorizon :
                      /\ r.future_ord[k] = last + k
                      /\ r.future_preds[k][2] = r.slope[2]
                      /\ r.future_preds[k][1] >= 0
                      /\ r.future_preds[k][1] = (IF Line(last + k) < 0 THEN 0 ELSE Line(last + k))
                /\ r.total_forecast = Frac(SumSeq([k \in DOMAIN r.future_preds |-> Num(r.future_preds[k])]), r.slope[2])
                /\ r.total_forecast[1] >= 0
                /\ TenTwentyThirty => r.slope[1] > 0

\* a narrative whose line falls below zero inside the 30 days, so that the
\* clamp acts, and whose total is still positive
C19_Witness ==
    \E i \in TrendCalls :
        /\ log[i].ret.kind = "narrative"
        /\ log[i].ret.slope[1] < 0
        /\ \E k \in 1 .. ForecastHorizon :
              /\ log[i].ret.slope[1] * log[i].ret.future_ord[k] + log[i].ret.intercept[1] < 0
              /\ log[i].ret.future_preds[k][1] = 0
        /\ log[i].ret.total_forecast[1] > 0

(***************************************************************************)
(* Claims about the intent router (core/ai_services.py)                    *)
(***************************************************************************)
RouterCalls == {i \in DOMAIN log : log[i].op = "get_ai_response"}
\* the calls whose body ran: not answered from the cache, not stopped by
\* the missing argument
Executed == {i \in RouterCalls : ~log[i].hit /\ log[i].ret.kind # "raised"}
Requests(i, purpose) == SelectSeq(log[i].ext, LAMBDA r : r.purpose = purpose)
\* the classifier's reply of call i, trimmed and uppercased
Classified(i) == log[i].ext[1].outcome.raises = "none"
Reply(i) == Upper(Strip(log[i].ext[1].outcome.text))
OwnTemplateLabels ==
    {"BUDGETING", "SAVINGS_INVESTMENT", "TAX_INFO", "CASH_MANAGEMENT", "REPORT_SUMMARY"}
ForecastKinds == {"narrative", "not_enough_data", "not_enough_expense"}
ErrorKinds == {"api_error", "unexpected_error"}
TemplateOf(i) == Requests(i, "generate")[1].arg.template
Words(s) == SelectSeq(s, LAMBDA t : t \notin Whitespace /\ t # "categorize")

\* C11: the trimmed, uppercased reply is matched against the labels by
\* containment: CATEGORIZATION takes the categorization path, FORECASTING
\* the forecast path, a reply containing one of the five other labels
\* selects that label's template, and only a reply containing no known
\* label falls back to the GENERAL_QUERY template.
C11_LabelsBySubstring ==
    \A i \in Executed :
        Classified(i) =>
            IF Contains(Reply(i), "CATEGORIZATION")
            THEN log[i].ret.kind = "sentence"
            ELSE IF Contains(Reply(i), "FORECASTING")
            THEN log[i].ret.kind \in ForecastKinds /\ Requests(i, "generate") = <<>>
            ELSE /\ Len(Requests(i, "generate")) = 1
                 /\ \A l \in OwnTemplateLabels : Contains(Reply(i), l) => TemplateOf(i) = l
                 /\ (\A l \in Labels : ~Contains(Reply(i), l)) => TemplateOf(i) = "GENERAL_QUERY"
                 /\ TemplateOf(i) = "GENERAL_QUERY"
                       => \A l \in OwnTemplateLabels : ~Contains(Reply(i), l)

\* C12: when the classification call raises, the router still issues the
\* generation call with the GENERAL_QUERY template and returns its text.
C12_ClassifyFailureDegrades ==
    \A i \in Executed :
        ~Classified(i) =>
            /\ Len(Requests(i, "generate")) = 1
            /\ TemplateOf(i) = "GENERAL_QUERY"
            /\ Requests(i, "generate")[1].outcome.raises = "none"
                  => log[i].ret = [kind |-> "generated", text |-> Requests(i, "generate")[1].outcome.text]

\* C13: get_ai_response never raises to its caller; a failure of any step
\* ends in a returned string that embeds the error detail.
C13_NeverRaises ==
    \A i \in RouterCalls :
        /\ log[i].ret.kind # "raised"
        /\ \A k \in DOMAIN log[i].ext :
              (log[i].ext[k].service = "gemini" /\ log[i].ext[k].outcome.raises # "none")
                  => (log[i].ret.kind \in ErrorKinds /\ log[i].ret.detail = log[i].ext[k].outcome.raises)

\* C14: on the CATEGORIZATION path the word "categorize" is removed from
\* the query and the service is called with the remainder ("starbucks
\* coffee" for "categorize starbucks coffee"); when the service raises, the
\* category returned and shown in the sentence is exactly "Other", and
\* neither an error string nor an exception reaches the caller.
C14_CategorizePath ==
    \A i \in Executed :
        (Classified(i) /\ Contains(Reply(i), "CATEGORIZATION")) =>
            /\ log[i].ret.kind = "sentence"
            /\ ~Contains(log[i].ret.description, "categorize")
            /\ log[i].ret.description = Strip(log[i].ret.description)
            /\ Words(log[i].ret.description) = Words(Lower(log[i].query))
            /\ log[i].query = <<"categorize", " ", "starbucks", " ", "coffee">>
                  => log[i].ret.description = <<"starbucks", " ", "coffee">>
            /\ \A k \in DOMAIN log[i].ext :
                  log[i].ext[k].service = "granite" =>
                      /\ log[i].ext[k].arg = log[i].ret.description
                      /\ log[i].ext[k].outcome.raises # "none" => log[i].ret.category = "Other"
                      /\ log[i].ext[k].outcome.raises = "none"
                            => log[i].ret.category = log[i].ext[k].outcome.label

\* the query "categorize starbucks coffee" is classified as a
\* categorization and the service raises
C14_Witness ==
    \E i \in Executed :
        /\ log[i].query = <<"categorize", " ", "starbucks", " ", "coffee">>
        /\ Len(log[i].ext) = 2
        /\ log[i].ext[2].service = "granite"
        /\ log[i].ext[2].arg = <<"starbucks", " ", "coffee">>
        /\ log[i].ext[2].outcome.raises = "Exception"
        /\ log[i].ret = [kind |-> "sentence", description |-> <<"starbucks", " ", "coffee">>,
                         category |-> "Other"]

\* C15 as stated: an uncached invocation makes exactly one classification
\* call, first; then one categorization-service call for CATEGORIZATION, no
\* further call for FORECASTING, exactly one generation call for every
\* other intent; never more than one further call, none retried.
C15_OneCallPerIntent ==
    \A i \in Executed :
        /\ Len(log[i].ext) \in {1, 2}
        /\ log[i].ext[1].purpose = "classify"
        /\ Len(Requests(i, "classify")) = 1
        /\ Classified(i) =>
              IF Contains(Reply(i), "CATEGORIZATION")
              THEN Len(log[i].ext) = 2 /\ log[i].ext[2].service = "granite"
              ELSE IF Contains(Reply(i), "FORECASTING")
              THEN Len(log[i].ext) = 1
              ELSE Len(log[i].ext) = 2 /\ log[i].ext[2].purpose = "generate"

\* C15 as amended: the categorization-service call is made unless the
\* category of that description is already cached by an earlier call, and
\* no call follows a classification that raised.
C15_OneCallPerIntentUnlessCached ==
    \A i \in Executed :
        /\ Len(log[i].ext) \in {1, 2}
        /\ log[i].ext[1].purpose = "classify"
        /\ Len(Requests(i, "classify")) = 1
        /\ IF ~Classified(i) THEN Len(log[i].ext) = 1
           ELSE IF Contains(Reply(i), "CATEGORIZATION")
           THEN LET AskedBefore ==
                        \E j \in 1 .. (i - 1) : \E k \in DOMAIN log[j].ext :
                            /\ log[j].ext[k].service = "granite"
                            /\ log[j].ext[k].arg = log[i].ret.description
                IN  IF AskedBefore THEN Len(log[i].ext) = 1
                    ELSE Len(log[i].ext) = 2 /\ log[i].ext[2].service = "granite"
           ELSE IF Contains(Reply(i), "FORECASTING")
           THEN Len(log[i].ext) = 1
           ELSE Len(log[i].ext) = 2 /\ log[i].ext[2].purpose = "generate"

\* a second query with the same description is categorized from the cache:
\* its invocation makes the classification call and no other
C15_Witness ==
    \E i \in Executed : \E j \in Executed :
        /\ j < i
        /\ log[j].query # log[i].query
        /\ log[j].ret.kind = "sentence" /\ log[i].ret.kind = "sentence"
        /\ Len(log[j].ext) = 2 /\ Len(log[i].ext) = 1
        /\ log[i].ret.category = log[j].ret.category

(***************************************************************************)
(* Claims about the caches (core/ai_services.py, core/stock_market.py)     *)
(***************************************************************************)
StockCalls == {i \in DOMAIN log : log[i].op = "get_stock_data"}
\* the external requests of one kind made by call i
RequestsTo(i, service, purpose) ==
    SelectSeq(log[i].ext, LAMBDA r : r.service = service /\ r.purpose = purpose)
\* the calls of the router that went through the categorization
Categorized == {i \in RouterCalls : ~log[i].hit /\ log[i].ret.kind = "sentence"}

AmountCalls == {i \in DOMAIN log : log[i].op = "_decimal_from_text"}
RECURSIVE DropTrailingZeros(_)
DropTrailingZeros(d) ==
    IF d # <<>> /\ d[Len(d)] = "0" THEN DropTrailingZeros(SubSeq(d, 1, Len(d) - 1)) ELSE d
\* two Decimals compare equal
SameDecimal(a, b) ==
    /\ a.valid /\ b.valid
    /\ a.whole = b.whole
    /\ DropTrailingZeros(a.frac) = DropTrailingZeros(b.frac)
TwelveThousandFifty ==
    [valid |-> TRUE, whole |-> <<"1", "2", "0", "0", "0">>, frac |-> <<"5", "0">>]

\* C20: the markers (rupee sign, Rs, INR), thousands commas and spaces are
\* removed and only digits and the dot are kept: the text "RUPEE 12,000.50"
\* parses to 12000.50, and a decorated in-range amount parses to the same
\* Decimal as its undecorated digits (to the digits themselves when they
\* have at most ten decimals).
C20_DecorationIgnored ==
    \A i \in AmountCalls :
        /\ log[i].text = <<"RUPEE", "1", "2", ",", "0", "0", "0", ".", "5", "0">>
              => (log[i].norm = <<"1", "2", "0", "0", "0", ".", "5", "0">>
                    /\ log[i].ret = TwelveThousandFifty)
        /\ log[i].plain # <<>> =>
              /\ log[i].norm = log[i].plain
              /\ \A k \in DOMAIN log[i].norm : IsDigit(log[i].norm[k]) \/ log[i].norm[k] = "."
              /\ SameDecimal(log[i].ret, DecimalFromText(log[i].plain))
              /\ LET point == CHOOSE k \in DOMAIN log[i].plain \cup {Len(log[i].plain) + 1} :
                                  /\ k <= Len(log[i].plain) => log[i].plain[k] = "."
                                  /\ \A j \in 1 .. (k - 1) : log[i].plain[j] # "."
                     whole == SubSeq(log[i].plain, 1, point - 1)
                     frac == SubSeq(log[i].plain, point + 1, Len(log[i].plain))
                 IN  Len(frac) <= MaxDecimals =>
                        SameDecimal(log[i].ret,
                                    [valid |-> TRUE, whole |-> DropLeadingZeros(whole), frac |-> frac])

\* the rupee example has been parsed
C20_Witness ==
    \E i \in AmountCalls :
        /\ log[i].text = <<"RUPEE", "1", "2", ",", "0", "0", "0", ".", "5", "0">>
        /\ log[i].plain = <<"1", "2", "0", "0", "0", ".", "5", "0">>
        /\ log[i].ret = TwelveThousandFifty

\* a text that denotes a negative value: a minus sign in front of an amount
\* that is not zero
DenotesNegative(text) ==
    /\ text # <<>> /\ Head(text) = "-"
    /\ \E k \in DOMAIN text : IsDigit(text[k]) /\ text[k] # "0"
    /\ \A k \in 2 .. Len(text) : text[k] # "-"
\* an unsigned numeral: digits with at most one point
IsNumeral(text) ==
    /\ \E k \in DOMAIN text : IsDigit(text[k])
    /\ \A k \in DOMAIN text : IsDigit(text[k]) \/ text[k] = "."
    /\ Cardinality({k \in DOMAIN text : text[k] = "."}) <= 1
\* digit sequences of one length compared as numbers
RECURSIVE DigitsGreater(_, _)
DigitsGreater(a, b) ==
    IF a = <<>> THEN FALSE
    ELSE IF Head(a) # Head(b) THEN DigitValue(Head(a)) > DigitValue(Head(b))
    ELSE DigitsGreater(Tail(a), Tail(b))
\* the value of a numeral exceeds 999999999999.9999999999
ExceedsMaximum(text) ==
    LET dots == {k \in DOMAIN text : text[k] = "."}
        point == IF dots = {} THEN Len(text) + 1 ELSE CHOOSE k \in dots : TRUE
        whole == DropLeadingZeros(SubSeq(text, 1, point - 1))
        frac == DropTrailingZeros(SubSeq(text, point + 1, Len(text)))
        width == IF Len(frac) > 10 THEN Len(frac) ELSE 10
        Padded(f) == f \o [k \in 1 .. (width - Len(f)) |-> "0"]
    IN  \/ Len(whole) > 12
        \/ Len(whole) = 12 /\ DigitsGreater(whole \o Padded(frac), Nines(12) \o Padded(Nines(10)))

\* C21: _decimal_from_text returns None for every amount text whose value
\* exceeds 999999999999.9999999999 and for every text that denotes a
\* negative value, such as -5 or -12,000.50; a rejected text yields no
\* amount.
C21_RejectsAboveMaxAndNegative ==
    \A i \in AmountCalls :
        /\ (IsNumeral(log[i].text) /\ ExceedsMaximum(log[i].text)) => ~log[i].ret.valid
        /\ DenotesNegative(log[i].text) => ~log[i].ret.valid
        /\ ~log[i].ret.valid => DOMAIN log[i].ret = {"valid"}

\* the part of C21 about the maximum alone
C21_RejectsAboveMax ==
    \A i \in AmountCalls :
        (IsNumeral(log[i].text) /\ ExceedsMaximum(log[i].text)) => ~log[i].ret.valid

(***************************************************************************)
(* ui/sidebar.py and main.py: the session of the application               *)
(*                                                                         *)
(* A stored amount is the binary64 number float(amount_dec).  Between 2^39 *)
(* and 2^40, where the maximum amount lies, consecutive binary64 numbers   *)
(* are 2^-13 apart; a stored amount is kept as its whole digits and the    *)
(* number of 8192ths after them.  The amounts typed in this model either   *)
(* are multiples of 2^-13 with at most ten decimals or lie above 2^39, so  *)
(* the conversion is computed exactly.                                     *)
(***************************************************************************)
FloatFractions == 8192
HalfPlaces == 5
HalfScale == 100000

\* the number a digit sequence of at most nine digits denotes
RECURSIVE DigitsValue(_)
DigitsValue(d) ==
    IF d = <<>> THEN 0 ELSE 10 * DigitsValue(SubSeq(d, 1, Len(d) - 1)) + DigitValue(d[Len(d)])

\* whole digit sequences without leading zeros compared as numbers
WholeAtLeast(a, b) ==
    IF Len(a) # Len(b) THEN Len(a) > Len(b)
    ELSE a = b \/ (\E k \in DOMAIN a : /\ SubSeq(a, 1, k - 1) = SubSeq(b, 1, k - 1)
                                       /\ DigitValue(a[k]) > DigitValue(b[k]))

\* float(amount_dec): the nearest binary64 number, a tie going to the even
\* significand; float(Decimal(repr(f))) is f again
ToFloat(d) ==
    IF "repr_of" \in DOMAIN d THEN d.repr_of
    ELSE LET f10 == SubSeq(d.frac \o [k \in 1 .. MaxDecimals |-> "0"], 1, MaxDecimals)
             a == DigitsValue(SubSeq(f10, 1, HalfPlaces))
             b == DigitsValue(SubSeq(f10, HalfPlaces + 1, MaxDecimals))
             q == a * FloatFractions + ((b * FloatFractions) \div HalfScale)
             r == (b * FloatFractions) % HalfScale
             n0 == q \div HalfScale
             rem == q % HalfScale
             up == \/ 2 * rem > HalfScale
                   \/ 2 * rem = HalfScale /\ r > 0
                   \/ 2 * rem = HalfScale /\ r = 0 /\ n0 % 2 = 1
             n == IF up THEN n0 + 1 ELSE n0
         IN  IF n = FloatFractions
             THEN [whole |-> Increment(d.whole), frac13 |-> 0]
             ELSE [whole |-> d.whole, frac13 |-> n]

\* Decimal(str(f)): the decimal that repr prints for a stored amount
DecimalOfFloat(f) == [valid |-> TRUE, repr_of |-> f]

\* a whole number of at most nine digits as a stored amount
RECURSIVE DigitsOf(_)
DigitsOf(m) == IF m = 0 THEN <<>> ELSE DigitsOf(m \div 10) \o <<Digits[(m % 10) + 1]>>
FloatOfInt(n) == [whole |-> DigitsOf(n), frac13 |-> 0]

SliderMin == 0
SliderMax == 100000
SliderStep == 10000

\* max(SLIDER_MIN, min(start_val, SLIDER_MAX)) on a stored amount
ClampToSlider(f) ==
    IF WholeAtLeast(f.whole, FloatOfInt(SliderMax).whole) THEN FloatOfInt(SliderMax) ELSE f

\* Decimal(str(val_f)).quantize(Decimal("0.0000000001")) of the slider value:
\* a step of the slider or a clamped amount, which have at most ten decimals
DecimalOfSlider(f) == DecimalOfFloat(f)

\* st.session_state as far as the widgets of the two forms go: the keys
\* that are present and their values
AddKeys ==
    {"add_date", "add_cat", "add_note", "add_amount_text", "add_amount_slider", "add_amount_mode"}
EditKeys ==
    {"edit_date", "edit_cat", "edit_note", "edit_amount_text", "edit_amount_slider",
     "edit_amount_mode"}
PickKey == "edit_row_idx"
SliderMode == "Use slider (bar)"
TextMode == "Type exact value"

Has(form, k) == k \in DOMAIN form
Get(form, k, default) == IF k \in DOMAIN form THEN form[k] ELSE default
Put(form, k, v) == [x \in DOMAIN form \cup {k} |-> IF x = k THEN v ELSE form[x]]
Del(form, keys) == [x \in DOMAIN form \ keys |-> form[x]]

\* _clear_add_fields, _clear_edit_fields
ClearAddFields(form) == Del(form, AddKeys)
ClearEditFields(form) == Del(form, EditKeys)

\* mode_key, slider_key, text_key of amount_block
ModeKey(prefix) == IF prefix = "add" THEN "add_amount_mode" ELSE "edit_amount_mode"
SliderKey(prefix) == IF prefix = "add" THEN "add_amount_slider" ELSE "edit_amount_slider"
TextKey(prefix) == IF prefix = "add" THEN "add_amount_text" ELSE "edit_amount_text"

\* amount_block(prefix, default_val): the Decimal of the slider or of the
\* typed text, [valid |-> FALSE] for None.  default_val is a Decimal, given
\* here by the amount it was made from (0 for the add form).
AmountBlock(form, prefix, default_f) ==
    LET mode == Get(form, ModeKey(prefix), SliderMode)
    IN  IF mode = SliderMode
        THEN DecimalOfSlider(Get(form, SliderKey(prefix), ClampToSlider(default_f)))
        ELSE IF Has(form, TextKey(prefix))
             THEN DecimalFromText(form[TextKey(prefix)])
             ELSE IF Len(default_f.whole) > MaxIntDigits THEN [valid |-> FALSE]
                  ELSE DecimalOfFloat(default_f)

\* the widgets amount_block does not draw in the chosen mode lose their
\* state when the pass ends
UndrawnAmountKeys(form, prefix) ==
    IF Get(form, ModeKey(prefix), SliderMode) = SliderMode
    THEN {TextKey(prefix)} ELSE {SliderKey(prefix)}

\* str.strip() on the project names and notes of the model
StripText(t) ==
    CASE t = " Home " -> "Home"
      [] t = "  " -> ""
      [] t = " n " -> "n"
      [] OTHER -> t

NoEvent == [kind |-> "none"]
NoPrompt == "<no prompt>"
DecimalZero == FloatOfInt(0)
BudgetPrompt ==
    <<"Based on my transaction history, create a simple monthly budget plan for me. Suggest categories and amounts.">>

IndexOf(seq, x) == CHOOSE i \in DOMAIN seq : seq[i] = x
RemoveAt(seq, i) == SubSeq(seq, 1, i - 1) \o SubSeq(seq, i + 1, Len(seq))

\* the values the interface keeps between passes of the script:
\* st.session_state and the st.cache_data store of get_ai_response
Session ==
    [projects |-> projects, selected_project |-> selected_project, ai_cache |-> ai_cache,
     order |-> ui.order, last_project |-> ui.last_project, messages |-> ui.messages,
     prompt_from_button |-> ui.prompt_from_button, budget_plan |-> ui.budget_plan,
     form |-> ui.form, edit_shown |-> ui.edit_shown, key_identity |-> ui.key_identity]

\* render_sidebar, lines 181-193: the selectbox returns the option the user
\* picked, else the option at the index of the selected project (index 0
\* when it is no option), and None when there is no option
CurrentProject(s, ev) ==
    LET project_options == s.order
        selected_index == IF s.selected_project \in Range(project_options)
                          THEN IndexOf(project_options, s.selected_project) ELSE 1
    IN  IF project_options = <<>> THEN NoProject
        ELSE IF ev.kind = "select" THEN ev.project
        ELSE project_options[selected_index]

\* render_sidebar, lines 195-201: reset volatile state if the project changes
ResetIfProjectChanged(s) ==
    IF s.last_project # s.selected_project
    THEN [s EXCEPT !.last_project = s.selected_project,
                   !.form = ClearEditFields(ClearAddFields(s.form)),
                   !.messages = <<>>]
    ELSE s

\* a Create that adds the project and leaves the selection and the pass alone
CreateProjectOnly(s, ev) ==
    LET name == StripText(ev.name)
    IN  IF name # "" /\ name \notin DOMAIN s.projects
        THEN [s |-> [s EXCEPT !.projects = [p \in DOMAIN s.projects \cup {name} |->
                                               IF p = name THEN <<>> ELSE s.projects[p]],
                              !.order = Append(s.order, name)],
              rerun |-> FALSE, notice |-> "success"]
        ELSE [s |-> s, rerun |-> FALSE, notice |-> "error"]

\* render_sidebar, lines 204-214: the Create button
CreateProject(s, ev) ==
    LET name == StripText(ev.name)
    IN  IF name # "" /\ name \notin DOMAIN s.projects
        THEN [s |-> [s EXCEPT !.projects = [p \in DOMAIN s.projects \cup {name} |->
                                               IF p = name THEN <<>> ELSE s.projects[p]],
                              !.order = Append(s.order, name),
                              !.selected_project = name],
              rerun |-> TRUE, notice |-> "success"]
        ELSE [s |-> s, rerun |-> FALSE, notice |-> "error"]

\* _append_transaction
AppendTransaction(df, dt, category, amount_dec, note) ==
    Append(df, [date |-> dt, category |-> category, amount |-> ToFloat(amount_dec),
                note |-> StripText(note)])

\* _update_transaction
UpdateTransaction(df, idx, dt, category, amount_dec, note) ==
    [df EXCEPT ![idx] = [date |-> dt, category |-> category, amount |-> ToFloat(amount_dec),
                         note |-> StripText(note)]]

\* render_sidebar, lines 227-246: the Add button
AddTransaction(s, ev, now) ==
    LET proj == s.selected_project
        df == s.projects[proj]
    IN  The({IF ~add_amount.valid THEN [s |-> s, rerun |-> FALSE, notice |-> "error"]
             ELSE [s |-> [s EXCEPT !.projects[proj] =
                                       AppendTransaction(df, Get(s.form, "add_date", now),
                                                         Get(s.form, "add_cat", "Income"),
                                                         add_amount, Get(s.form, "add_note", "")),
                                   !.form = ClearAddFields(s.form)],
                   rerun |-> TRUE, notice |-> "success"] :
                add_amount \in {AmountBlock(s.form, "add", DecimalZero)}})

\* render_sidebar, lines 258-263: the row the selectbox of the edit form
\* gives.  A widget keeps the value stored under its key while its
\* identity stays the same: the key alone (key_identity), or the key with
\* the options and the default the widget is drawn with.
PickedRow(s, df) ==
    IF /\ Has(s.form, PickKey)
       /\ s.form[PickKey] \in DOMAIN df
       /\ (s.key_identity \/ (s.edit_shown.drawn /\ s.edit_shown.rows = df))
    THEN s.form[PickKey] ELSE 1

\* the edit widgets after the selectbox: when the defaults they are drawn
\* with belong to another row, they start from those defaults unless the
\* key alone is their identity
EditWidgets(s, df) ==
    LET selected_idx == PickedRow(s, df)
        cur == df[selected_idx]
        form1 == Put(s.form, PickKey, selected_idx)
    IN  IF s.key_identity \/ (s.edit_shown.drawn /\ s.edit_shown.cur = cur)
        THEN form1
        ELSE Del(form1, EditKeys \ {"edit_amount_mode"})

\* render_sidebar, lines 249-297: the Save Changes and Delete buttons
EditTransaction(s, ev) ==
    LET proj == s.selected_project
        df == s.projects[proj]
    IN  The({LET selected_idx == form[PickKey]
                 cur == df[selected_idx]
                 s1 == [s EXCEPT !.form = form,
                                 !.edit_shown = [drawn |-> TRUE, rows |-> df, cur |-> cur]]
             IN  IF ev.kind = "save"
                 THEN The({IF ~edit_amount.valid
                           THEN [s |-> s1, rerun |-> FALSE, notice |-> "error"]
                           ELSE [s |-> [s1 EXCEPT !.projects[proj] =
                                                      UpdateTransaction(df, selected_idx,
                                                          Get(form, "edit_date", cur.date),
                                                          Get(form, "edit_cat", cur.category),
                                                          edit_amount,
                                                          Get(form, "edit_note", cur.note)),
                                                  !.form = ClearEditFields(form)],
                                 rerun |-> TRUE, notice |-> "success"] :
                              edit_amount \in {AmountBlock(form, "edit", cur.amount)}})
                 ELSE IF ev.kind = "delete"
                 THEN [s |-> [s1 EXCEPT !.projects[proj] = RemoveAt(df, selected_idx),
                                        !.form = ClearEditFields(form)],
                       rerun |-> TRUE, notice |-> "success"]
                 ELSE [s |-> s1, rerun |-> FALSE, notice |-> "none"] :
                form \in {EditWidgets(s, df)}})

\* get_ai_response(prompt, df) through its st.cache_data wrapper, for the
\* replies of the classifier that lead to the generation branch
AiCall(cache, user_query, df, ai) ==
    IF CachedResponse(cache, user_query, df)
    THEN [ret |-> CacheGet(cache, <<user_query, df>>), ext |-> <<>>, cache |-> cache]
    ELSE The({[ret |-> r.ret, ext |-> r.ext,
               cache |-> cache \cup {[key |-> <<user_query, df>>, value |-> r.ret]}] :
                 r \in {GetAiResponseBody(user_query, df, ai.cls, ai.gen, ai.pred, {}, {}, FALSE)}})

\* one stage of a pass: the session, whether the pass ended in st.rerun()
\* or st.stop(), the st.error or st.success it showed and the external
\* requests it made
Stage(s) == [s |-> s, rerun |-> FALSE, stopped |-> FALSE, notice |-> "none", ext |-> <<>>]

\* render_sidebar up to the Create button
SidebarTop(s0, ev) ==
    The({IF ev.kind = "create"
         THEN The({[Stage(c.s) EXCEPT !.rerun = c.rerun, !.notice = c.notice] :
                      c \in {CreateProject(s2, ev)}})
         ELSE Stage(s2) :
            s2 \in {ResetIfProjectChanged([s1 EXCEPT !.selected_project = CurrentProject(s1, ev)]) :
                       s1 \in {IF ev.kind = "set"
                                THEN [s0 EXCEPT !.form = Put(s0.form, ev.key, ev.value)]
                                ELSE s0}}})

\* render_sidebar from line 219 on; main() stops the pass when no project
\* is selected
SidebarTransactions(r, ev, now) ==
    IF r.rerun THEN r
    ELSE IF r.s.selected_project = NoProject THEN [r EXCEPT !.stopped = TRUE]
    ELSE The({IF a.rerun THEN [r EXCEPT !.s = a.s, !.rerun = TRUE, !.notice = a.notice]
              ELSE IF a.s.projects[a.s.selected_project] = <<>>
              THEN [r EXCEPT !.s = a.s, !.notice = a.notice]
              ELSE The({[r EXCEPT !.s = e.s, !.rerun = e.rerun,
                                  !.notice = IF e.notice = "none" THEN a.notice ELSE e.notice] :
                           e \in {EditTransaction(a.s, ev)}}) :
                 a \in {IF ev.kind = "add" THEN AddTransaction(r.s, ev, now)
                        ELSE [s |-> r.s, rerun |-> FALSE, notice |-> r.notice]}})

\* a chat that keeps the question and shows nothing for a failed answer
ExchangeDroppingErrors(messages, prompt, response) ==
    IF response.kind = "generated"
    THEN messages \o <<[role |-> "user", content |-> prompt],
                       [role |-> "assistant", content |-> response]>>
    ELSE Append(messages, [role |-> "user", content |-> prompt])

\* render_chat_tab, lines 32 and 41: the question and the answer are
\* appended to the conversation
Exchange(messages, prompt, response) ==
    messages \o <<[role |-> "user", content |-> prompt],
                  [role |-> "assistant", content |-> response]>>

\* render_chat_tab
ChatTab(r, ev, ai) ==
    IF r.rerun \/ r.stopped THEN r
    ELSE IF r.s.messages = <<>> /\ ev.kind = "example"
    THEN [r EXCEPT !.s.prompt_from_button = ev.text, !.rerun = TRUE]
    ELSE LET queued == r.s.prompt_from_button \notin {Unset, NoPrompt}
             prompt == IF queued THEN r.s.prompt_from_button
                       ELSE IF ev.kind = "prompt" THEN ev.text ELSE NoPrompt
             s1 == IF queued THEN [r.s EXCEPT !.prompt_from_button = NoPrompt] ELSE r.s
         IN  IF prompt = NoPrompt THEN [r EXCEPT !.s = s1]
             ELSE The({[r EXCEPT !.s = [s1 EXCEPT !.messages =
                                                      Exchange(s1.messages, prompt, response.ret),
                                                  !.ai_cache = response.cache],
                                 !.rerun = TRUE, !.ext = response.ext] :
                          response \in {AiCall(s1.ai_cache, <<prompt>>,
                                               s1.projects[s1.selected_project], ai)}})

\* a budget button that generates a plan on every press
PlanMissingAlways(budget_plan) == TRUE

\* render_planning_tab, line 24: 'budget_plan' not in st.session_state or
\* st.session_state.budget_plan is None
PlanMissing(budget_plan) == budget_plan = NoPlan

\* render_planning_tab, lines 23-30
PlanningTab(r, ev, ai) ==
    IF r.rerun \/ r.stopped \/ ev.kind # "budget" THEN r
    ELSE IF ~PlanMissing(r.s.budget_plan) THEN r
    ELSE The({[r EXCEPT !.s.budget_plan = response.ret, !.s.ai_cache = response.cache,
                        !.ext = response.ext] :
                 response \in {AiCall(r.s.ai_cache, BudgetPrompt,
                                      r.s.projects[r.s.selected_project], ai)}})

\* the end of a pass that was not cut short by st.rerun(): the widgets
\* that were not drawn lose the values stored under their keys
EndOfPass(r) ==
    IF r.rerun THEN r
    ELSE IF r.s.selected_project = NoProject
    THEN [r EXCEPT !.s.form = Del(r.s.form, AddKeys \cup EditKeys \cup {PickKey}),
                   !.s.edit_shown = NotDrawn]
    ELSE LET undrawn_add == UndrawnAmountKeys(r.s.form, "add")
         IN  IF r.s.projects[r.s.selected_project] = <<>>
             THEN [r EXCEPT !.s.form = Del(r.s.form, undrawn_add \cup EditKeys \cup {PickKey}),
                            !.s.edit_shown = NotDrawn]
             ELSE [r EXCEPT !.s.form = Del(r.s.form, undrawn_add \cup UndrawnAmountKeys(r.s.form, "edit"))]

\* one pass of the script: main() with render_sidebar, the chat tab and
\* the planning tab
Script(s, ev, ai, now) ==
    The({EndOfPass(planned) :
            planned \in {PlanningTab(chatted, ev, ai) :
                chatted \in {ChatTab(listed, ev, ai) :
                    listed \in {SidebarTransactions(top, ev, now) :
                        top \in {SidebarTop(s, ev)}}}}})

\* the passes one interaction sets off: the pass with the interaction and
\* the passes st.rerun() starts after it, which see no interaction; the
\* notice is the one the pass with the interaction showed
RECURSIVE Run(_, _, _, _)
Run(s, ev, ai, now) ==
    The({IF ~p.rerun THEN [s |-> p.s, notice |-> p.notice, ext |-> p.ext, passes |-> 1]
         ELSE The({[s |-> rest.s, notice |-> p.notice, ext |-> p.ext \o rest.ext,
                    passes |-> rest.passes + 1] :
                      rest \in {Run(p.s, NoEvent, ai, now)}}) :
            p \in {Script(s, ev, ai, now)}})

(***************************************************************************)
(* The session as a state machine: one action per interaction, which runs  *)
(* the script and the reruns it asks for                                   *)
(***************************************************************************)
\* DEFAULT_CATEGORIES[0], the default of the category selectbox, and a second category
FirstCategory == "Income"
OtherCategory == "Groceries"

\* rows as the Add button stores them
RowA == [date |-> Today0 - 1, category |-> OtherCategory,
         amount |-> [whole |-> <<"1", "2", "0", "0", "0">>, frac13 |-> FloatFractions \div 2], note |-> "n"]
RowB == [date |-> Today0, category |-> FirstCategory, amount |-> FloatOfInt(SliderMax), note |-> ""]
\* the tables of the projects Home and Work of a session that is under way
AppTablePairs ==
    {<<<<>>, <<>>>>, <<<<RowA>>, <<RowA, RowB>>>>, <<<<RowA, RowB>>, <<RowA, RowB>>>>}

\* texts typed into the amount field
AppTexts ==
    {<<"-", "5">>, Nines(12) \o <<".">> \o Nines(10), <<"a", "b", "c">>,
     <<"1">> \o [i \in 1 .. 12 |-> "0"]}
\* project names typed into the New Project field
NameInputs == {" Home ", "  ", "Work"}
\* prompts typed into the chat; the two example buttons
PromptInputs == {"How much did I spend?"}
ExampleInputs == {"Summarize my spending", "Create a budget for me"}
\* what the services do when a pass asks them
AiInputs ==
    {[cls |-> c, gen |-> g, pred |-> [raises |-> "Exception", label |-> ""]] :
        c \in {[raises |-> "none", text |-> <<"BUDGETING">>]},
        g \in {[raises |-> "none", text |-> "answer A"], [raises |-> "GoogleAPICallError", text |-> ""]}}
    \cup {[cls |-> [raises |-> "ValueError", text |-> <<>>], gen |-> [raises |-> "none", text |-> "answer A"],
           pred |-> [raises |-> "Exception", label |-> ""]]}
NoAi == CHOOSE a \in AiInputs : a.cls.raises = "none" /\ a.gen.raises = "none"

\* the modes of amount_block; the slider moved to its first step
ModeInputs == {SliderMode, TextMode}
SliderInput == FloatOfInt(SliderStep)

\* pending inputs of the two forms
AddPending ==
    [x \in AddKeys \ {"add_amount_slider"} |->
        CASE x = "add_date" -> Today0 - 1
          [] x = "add_cat" -> OtherCategory
          [] x = "add_note" -> " n "
          [] x = "add_amount_mode" -> TextMode
          [] x = "add_amount_text" -> <<"5">>]
EditPending ==
    [x \in (EditKeys \ {"edit_amount_text"}) \cup {PickKey} |->
        CASE x = "edit_date" -> Today0 - 2
          [] x = "edit_cat" -> FirstCategory
          [] x = "edit_note" -> "n"
          [] x = "edit_amount_mode" -> SliderMode
          [] x = "edit_amount_slider" -> SliderInput
          [] x = PickKey -> 2]
Merge(f, g) == [x \in DOMAIN f \cup DOMAIN g |-> IF x \in DOMAIN g THEN g[x] ELSE f[x]]
EmptyForm == [x \in {} |-> Unset]

\* a budget plan that was generated while the project had no transaction
EarlierPlan == [kind |-> "generated", text |-> "answer A"]

\* sessions that are under way: the projects Home and Work with their
\* tables, one of them selected, with or without pending form inputs and
\* with or without a budget plan
PreparedSessions ==
    {[projects |-> [p \in {"Home", "Work"} |-> IF p = "Home" THEN t[1] ELSE t[2]],
      selected_project |-> sel,
      ai_cache |-> IF planned THEN {[key |-> <<BudgetPrompt, <<>>>>, value |-> EarlierPlan]}
                   ELSE {},
      order |-> <<"Home", "Work">>,
      last_project |-> sel, messages |-> <<>>, prompt_from_button |-> Unset,
      budget_plan |-> IF planned THEN EarlierPlan ELSE NoPlan,
      form |-> IF pending
               THEN Merge(AddPending,
                          IF Len(IF sel = "Home" THEN t[1] ELSE t[2]) >= 2 THEN EditPending ELSE EmptyForm)
               ELSE EmptyForm,
      edit_shown |-> LET df == IF sel = "Home" THEN t[1] ELSE t[2]
                     IN  IF df = <<>> THEN NotDrawn
                         ELSE [drawn |-> TRUE, rows |-> df,
                               cur |-> df[IF pending /\ Len(df) >= 2 THEN 2 ELSE 1]],
      key_identity |-> id] :
        t \in AppTablePairs, sel \in {"Home", "Work"}, pending \in BOOLEAN, id \in BOOLEAN,
        planned \in BOOLEAN}

\* the session at startup, before the first project is created
StartupSession(id) ==
    [projects |-> EmptyForm, selected_project |-> NoProject, ai_cache |-> {}, order |-> <<>>,
     last_project |-> NoProject, messages |-> <<>>, prompt_from_button |-> Unset,
     budget_plan |-> NoPlan, form |-> EmptyForm, edit_shown |-> NotDrawn, key_identity |-> id]

\* the variables hold the session s
Holds(s) ==
    /\ projects = s.projects
    /\ selected_project = s.selected_project
    /\ ai_cache = s.ai_cache
    /\ ui = [order |-> s.order, last_project |-> s.last_project, messages |-> s.messages,
             prompt_from_button |-> s.prompt_from_button, budget_plan |-> s.budget_plan,
             form |-> s.form, edit_shown |-> s.edit_shown, key_identity |-> s.key_identity]

\* the state after a pass of the script that saw no interaction
InitApp ==
    /\ today = Today0
    /\ reverseTies = FALSE
    /\ snapshot = NoSnapshot
    /\ status_out = NoStatus
    /\ forecast = NoForecast
    /\ calls = 0
    /\ category_cache = {}
    /\ trend_cache = {}
    /\ stock_cache = {}
    /\ clock = 0
    /\ log = <<>>
    /\ \E s \in PreparedSessions \cup {StartupSession(id) : id \in BOOLEAN} :
          \E r \in {Script(s, NoEvent, NoAi, Today0)} : Holds(r.s)

\* one interaction: the passes it sets off, and a record of the last one
Interact(ev, ai) ==
    /\ calls < MaxSteps
    /\ \E r \in {Run(Session, ev, ai, today)} :
           /\ projects' = r.s.projects
           /\ selected_project' = r.s.selected_project
           /\ ai_cache' = r.s.ai_cache
           /\ ui' = [order |-> r.s.order, last_project |-> r.s.last_project,
                     messages |-> r.s.messages, prompt_from_button |-> r.s.prompt_from_button,
                     budget_plan |-> r.s.budget_plan, form |-> r.s.form,
                     edit_shown |-> r.s.edit_shown, key_identity |-> r.s.key_identity]
           /\ log' = <<[op |-> ev.kind, ev |-> ev, ai |-> ai, notice |-> r.notice, ext |-> r.ext,
                        passes |-> r.passes]>>
    /\ calls' = calls + 1
    /\ UNCHANGED <<today, reverseTies, snapshot, status_out, forecast>>
    /\ UNCHANGED <<category_cache, trend_cache, stock_cache, clock>>

HasProject == selected_project # NoProject
HasRows == HasProject /\ projects[selected_project] # <<>>

\* the user picks another project in the selectbox
SelectProject(p) ==
    /\ p \in Range(ui.order) /\ p # selected_project
    /\ Interact([kind |-> "select", project |-> p], NoAi)

\* the user presses Create with a typed name
PressCreate(name) == Interact([kind |-> "create", name |-> name], NoAi)

\* the user changes a widget of the add form
SetAddWidget(key, value) ==
    /\ HasProject
    /\ key \notin UndrawnAmountKeys(ui.form, "add")
    /\ ~(Has(ui.form, key) /\ ui.form[key] = value)
    /\ Interact([kind |-> "set", key |-> key, value |-> value], NoAi)

\* the user changes a widget of the edit form
SetEditWidget(key, value) ==
    /\ HasRows
    /\ key \notin UndrawnAmountKeys(ui.form, "edit")
    /\ ~(Has(ui.form, key) /\ ui.form[key] = value)
    /\ Interact([kind |-> "set", key |-> key, value |-> value], NoAi)

\* the user picks a row in the edit form
PickRow(i) ==
    /\ HasRows
    /\ i \in DOMAIN projects[selected_project]
    /\ Get(ui.form, PickKey, 1) # i
    /\ Interact([kind |-> "set", key |-> PickKey, value |-> i], NoAi)

\* the buttons of the two forms; the model keeps a table below the number
\* of records the trend forecast asks for
PressAdd ==
    /\ HasProject
    /\ Len(projects[selected_project]) < MinRecords - 1
    /\ Interact([kind |-> "add"], NoAi)
PressSave == HasRows /\ Interact([kind |-> "save"], NoAi)
PressDelete == HasRows /\ Interact([kind |-> "delete"], NoAi)

\* the planning tab's button
PressBudget(ai) == HasProject /\ Interact([kind |-> "budget"], ai)

\* the chat: an example button (shown while the chat is empty) and a typed prompt
PressExample(text, ai) ==
    /\ HasProject /\ ui.messages = <<>>
    /\ Interact([kind |-> "example", text |-> text], ai)
SubmitPrompt(text, ai) ==
    /\ HasProject
    /\ Interact([kind |-> "prompt", text |-> text], ai)

NextApp ==
    \/ \E p \in {"Home", "Work"} : SelectProject(p)
    \/ \E name \in NameInputs : PressCreate(name)
    \/ \E m \in ModeInputs : SetAddWidget(ModeKey("add"), m)
    \/ \E t \in AppTexts : SetAddWidget(TextKey("add"), t)
    \/ SetAddWidget(SliderKey("add"), SliderInput)
    \/ \E m \in ModeInputs : SetEditWidget(ModeKey("edit"), m)
    \/ \E t \in AppTexts : SetEditWidget(TextKey("edit"), t)
    \/ SetEditWidget(SliderKey("edit"), SliderInput)
    \/ \E i \in 1 .. 2 : PickRow(i)
    \/ PressAdd
    \/ PressSave
    \/ PressDelete
    \/ \E ai \in AiInputs : PressBudget(ai)
    \/ \E text \in ExampleInputs : \E ai \in AiInputs : PressExample(text, ai)
    \/ \E text \in PromptInputs : \E ai \in AiInputs : SubmitPrompt(text, ai)

SpecApp == InitApp /\ [][NextApp]_vars

(***************************************************************************)
(* Claims about the session                                                *)
(***************************************************************************)
\* a stored amount lies in [0, 999999999999.9999999999]: it has no sign, and
\* a binary64 number is at most the maximum exactly when it is below 10^12,
\* that is when its whole part has at most twelve digits
AmountInRange(f) == Len(f.whole) <= MaxIntDigits

\* C22: in every reachable state, after any sequence of add, edit and
\* delete actions in either amount mode, every stored transaction of every
\* project has an amount within [0, 999999999999.9999999999]
C22_StoredAmountsInRange ==
    \A p \in DOMAIN projects : \A i \in DOMAIN projects[p] :
        AmountInRange(projects[p][i].amount)

\* amounts from the slider and amounts typed below the last binary64 number
\* under 10^12 are stored within the range: every stored amount is below
\* 10^12 or is 10^12 itself, which is what the texts from
\* 999999999999.99993896484375 up to the maximum are stored as
C22_StoredAmountsAtMostRoundedMaximum ==
    \A p \in DOMAIN projects : \A i \in DOMAIN projects[p] :
        \/ AmountInRange(projects[p][i].amount)
        \/ projects[p][i].amount = [whole |-> <<"1">> \o [k \in 1 .. MaxIntDigits |-> "0"],
                                    frac13 |-> 0]

\* an amount text that is no valid amount: it has no digit, it denotes a
\* negative value, or its value exceeds the maximum
InvalidAmountText(text) ==
    \/ ~(\E k \in DOMAIN text : IsDigit(text[k]))
    \/ DenotesNegative(text)
    \/ IsNumeral(text) /\ ExceedsMaximum(text)
\* the form holds a typed amount that is invalid
TypedInvalid(form, prefix) ==
    /\ Get(form, ModeKey(prefix), SliderMode) = TextMode
    /\ Has(form, TextKey(prefix))
    /\ InvalidAmountText(form[TextKey(prefix)])
\* a project name that is empty or exists already
RejectedName(name) == StripText(name) = "" \/ StripText(name) \in DOMAIN projects

\* C23: a rejected sidebar action mutates no state: pressing Add or Save
\* Changes with an invalid amount leaves every project's transaction table
\* unchanged, and pressing Create with an empty or already existing project
\* name leaves the set of projects, every existing project's transactions
\* and the selected project unchanged
C23_RejectedActionsMutateNothing ==
    [][/\ (HasProject /\ TypedInvalid(ui.form, "add") /\ PressAdd) => projects' = projects
       /\ (/\ HasRows
           /\ TypedInvalid(EditWidgets(Session, projects[selected_project]), "edit")
           /\ PressSave) => projects' = projects
       /\ \A name \in NameInputs :
              (RejectedName(name) /\ PressCreate(name)) =>
                  (projects' = projects /\ selected_project' = selected_project)]_vars

\* the actions the code rejects mutate nothing: an Add, a Save Changes or a
\* Create that shows its error leaves the projects and the selection as
\* they were
C23_ShownRejectionsMutateNothing ==
    [][(/\ log' # <<>> /\ calls' = calls + 1
        /\ log'[1].op \in {"add", "save", "create"}
        /\ log'[1].notice = "error") =>
            (projects' = projects /\ selected_project' = selected_project)]_vars

\* C24: in every reachable state of the application, from startup through
\* any sequence of project creations and selections, exactly one project is
\* selected and the selected project is a key of the projects collection
C24_ExactlyOneSelected == selected_project \in DOMAIN projects

\* C24, amended: in every reachable state of the application, from startup
\* through any sequence of project creations and selections, no project is
\* selected while the projects collection is empty (as it is at startup,
\* until the first project is created), and once a project exists exactly
\* one project is selected and the selected project is a key of the
\* projects collection
C24_OneSelectedOnceAProjectExists ==
    IF DOMAIN projects = {} THEN selected_project = NoProject
    ELSE selected_project \in DOMAIN projects

\* the first project was created at startup and is the selected one
C24_Witness ==
    /\ log # <<>> /\ log[1].op = "create" /\ log[1].notice = "success"
    /\ Cardinality(DOMAIN projects) = 1
    /\ selected_project \in DOMAIN projects

\* an interaction after which another project is selected
ProjectSwitched == calls' = calls + 1 /\ selected_project' # selected_project

\* C25: whenever the selected project changes, including when a newly
\* created project becomes selected, the ephemeral chat and form state is
\* reset before anything of the new project is shown: the chat message
\* history is empty and no pending add-form or edit-form input (date,
\* category, note, amount text, amount slider, amount mode, picked row)
\* entered under the previous project survives the switch
C25_SwitchResetsChatAndForms ==
    [][ProjectSwitched =>
           /\ ui'.messages = <<>>
           /\ DOMAIN ui'.form \cap (AddKeys \cup EditKeys) = {}
           /\ Get(ui'.form, PickKey, 1) = 1]_vars

\* what the switch does reset: the chat history and every input of the two
\* forms other than the picked row
C25_SwitchResetsAllButPickedRow ==
    [][ProjectSwitched =>
           /\ ui'.messages = <<>>
           /\ DOMAIN ui'.form \cap (AddKeys \cup EditKeys) = {}]_vars

\* user and assistant messages alternate, starting with a user message
Alternating(messages) ==
    /\ Len(messages) % 2 = 0
    /\ \A i \in DOMAIN messages :
           messages[i].role = IF i % 2 = 1 THEN "user" ELSE "assistant"
\* the chat history grew by the question and one answer to it; the answer is
\* the error string when the services were asked and one of them raised
Answered(text, ai) ==
    LET n == Len(ui.messages)
    IN  /\ Len(ui'.messages) = n + 2
        /\ SubSeq(ui'.messages, 1, n) = ui.messages
        /\ ui'.messages[n + 1] = [role |-> "user", content |-> text]
        /\ ui'.messages[n + 2].role = "assistant"
        /\ (log'[1].ext # <<>> /\ (ai.cls.raises # "none" \/ ai.gen.raises # "none"))
               => ui'.messages[n + 2].content.kind \in ErrorKinds

\* C27: at the end of every rerun pass the chat history consists of
\* alternating user and assistant messages starting with a user message
\* (so its length is even): each submitted prompt appends exactly one user
\* message followed by exactly one assistant message, also when the AI call
\* fails (the returned error string is the assistant message), and a
\* prompt queued by an example button is consumed exactly once
C27_ChatAlternates ==
    /\ [](Alternating(ui.messages) /\ ui.prompt_from_button \in {Unset, NoPrompt})
    /\ [][log'[1].op \in {"prompt", "example"} => Answered(log'[1].ev.text, log'[1].ai)]_vars

\* an example button was pressed, the generation failed, and the chat holds
\* the question and the error string
C27_Witness ==
    /\ log # <<>> /\ log[1].op = "example" /\ log[1].passes = 3
    /\ Len(ui.messages) = 2
    /\ ui.messages[1] = [role |-> "user", content |-> "Summarize my spending"]
    /\ ui.messages[2].role = "assistant"
    /\ ui.messages[2].content.kind = "api_error"
    /\ ui.prompt_from_button = NoPrompt

\* C28: once budget_plan holds a non-empty generated text, no user action
\* changes it: pressing 'Generate My Budget Plan' again makes no AI call,
\* and adding, editing or deleting transactions or switching or creating
\* projects leaves budget_plan unchanged, so the same plan text is shown
\* for every project
C28_PlanKept ==
    [][(ui.budget_plan.kind = "generated" /\ ui.budget_plan.text # "") =>
           /\ ui'.budget_plan = ui.budget_plan
           /\ log'[1].op = "budget" => log'[1].ext = <<>>]_vars

\* a plan was generated for one project; the button was pressed again
\* after the project had got a transaction, or another project was
\* selected, and the plan is the one generated first
C28_Witness ==
    /\ calls = MaxSteps
    /\ log[1].op \in {"budget", "select"} /\ log[1].ext = <<>>
    /\ ui.budget_plan = EarlierPlan
    /\ projects[selected_project] # <<>>
    /\ ~Cached(ai_cache, <<BudgetPrompt, projects[selected_project]>>)

(***************************************************************************)
(* Claims about the stock analysis and the caches                          *)
(***************************************************************************)
AnalysisCalls == {i \in DOMAIN log : log[i].op = "get_stock_analysis"}

\* C26: get_stock_analysis sends its stock prompt to the generative service
\* through get_ai_response and returns the generated text whenever the
\* service succeeds; it returns the 'An error occurred during AI analysis'
\* string only when that call raises
C26_AnalysisGenerated ==
    \A i \in AnalysisCalls :
        /\ ~log[i].hit =>
               /\ \E k \in DOMAIN log[i].ext :
                      /\ log[i].ext[k].service = "gemini"
                      /\ log[i].ext[k].arg = StockPrompt(log[i].info)
               /\ (log[i].cls.raises = "none" /\ log[i].gen.raises = "none") =>
                      log[i].ret = [kind |-> "generated", text |-> log[i].gen.text]
        /\ log[i].ret.kind = "analysis_error" => log[i].raised

\* what the code does: no request leaves get_stock_analysis and every call
\* returns the error string, whatever the services would answer
C26_AnalysisAlwaysFails ==
    \A i \in AnalysisCalls :
        /\ log[i].ext = <<>>
        /\ log[i].ret = [kind |-> "analysis_error", detail |-> "TypeError"]

\* call j went to the categorization service, the service raised, and the
\* call answered with the fallback category
FellBack(j) ==
    /\ RequestsTo(j, "granite", "predict") # <<>>
    /\ RequestsTo(j, "granite", "predict")[1].outcome.raises # "none"
    /\ log[j].ret.category = "Other"

\* C29: the fallback or error result of a failed external call is cached
\* like a success: after get_transaction_category returned 'Other' because
\* the service raised, or get_ai_response returned an apology string, a
\* later call with identical arguments returns that same value without
\* contacting the external service, even if the service has recovered in
\* between
C29_FailuresCached ==
    /\ \A i \in RouterCalls : \A j \in 1 .. (i - 1) :
          (/\ j \in RouterCalls /\ log[j].query = log[i].query /\ log[j].df = log[i].df
           /\ (log[j].ret.kind \in ErrorKinds \/ (j \in Categorized /\ FellBack(j)))) =>
              /\ log[i].hit /\ log[i].ext = <<>>
              /\ log[i].ret = log[j].ret
    /\ \A i \in Categorized : \A j \in Categorized :
          (j < i /\ log[j].ret.description = log[i].ret.description /\ FellBack(j)) =>
              /\ RequestsTo(i, "granite", "predict") = <<>>
              /\ log[i].ret.category = "Other"

\* a question got the apology string; the service then answered another
\* question; the first question asked again got the apology string from
\* the cache
C29_Witness ==
    /\ Len(log) = 3 /\ \A i \in 1 .. 3 : log[i].op = "get_ai_response"
    /\ ~log[1].hit /\ log[1].ret.kind = "api_error"
    /\ log[2].query # log[1].query /\ ~log[2].hit /\ log[2].ret.kind = "generated"
    /\ log[3].query = log[1].query /\ log[3].df = log[1].df
    /\ log[3].hit /\ log[3].ext = <<>> /\ log[3].ret = log[1].ret

\* the categorization service raised for a description; a second question
\* about the same description was answered 'Other' without asking it
C29_FallbackWitness ==
    \E i \in Categorized : \E j \in Categorized :
        /\ j < i /\ log[j].query # log[i].query
        /\ log[j].ret.description = log[i].ret.description /\ FellBack(j)
        /\ RequestsTo(i, "granite", "predict") = <<>>
        /\ log[i].ret.category = "Other"


(***************************************************************************)
(* C30: in every snapshot of _last_n_days_metrics where a top current-     *)
(* window expense category with positive spend has no expense in the       *)
(* previous window, that category's pct_change is 100 and _local_status    *)
(* does not return CLEAR_SKIES; in particular a project whose transactions *)
(* all lie in the current window and whose expense is > 0 never gets       *)
(* CLEAR_SKIES from the local rule, whatever its income and expense.       *)
(***************************************************************************)
\* a top category with positive current spend and no previous expense row
NewTopCategory(c) ==
    /\ c \in TopNames
    /\ CurExpenseSum(c) > 0
    /\ CategoryOf(SelectedTable, ExpenseOf(SelectedTable, PrevIdx), c) = {}

\* every transaction lies in the current window and something was spent
AllInCurrentWindow ==
    /\ CurIdx = DOMAIN SelectedTable
    /\ snapshot.metrics.current.expense > 0

C30_NewCategoryNeverClear ==
    /\ [](snapshot.called =>
            \A i \in DOMAIN Spikes :
                NewTopCategory(Spikes[i].category) =>
                    FracEq(Spikes[i].pct_change, FracOfInt(100)))
    /\ [][(SnapshotStatusCall /\ ((\E c \in TopNames : NewTopCategory(c)) \/ AllInCurrentWindow))
            => status_out'.status # "CLEAR_SKIES"]_vars

\* four new categories, one of them dropped from the spikes, with a savings
\* rate that would have earned CLEAR_SKIES
C30_Witness ==
    /\ snapshot.called
    /\ status_out.called
    /\ calls = 1
    /\ AllInCurrentWindow
    /\ \E c \in TopNames \ SpikeNames : NewTopCategory(c)
    /\ \E i \in DOMAIN Spikes : NewTopCategory(Spikes[i].category)
    /\ snapshot.metrics.current.net >= 0
    /\ FracGe(snapshot.metrics.current.savings_rate_pct, FracOfInt(20))
    /\ status_out.status = "PARTLY_CLOUDY"

====
